---------------------------- MODULE Spec2Model ----------------------------
(***************************************************************************)
(* A model of the Lingo translation pipeline (src/lingo/index.tsx):        *)
(* request deduplication, the concurrency scheduler, the volatile cache,   *)
(* the persistent translation memory, the backend resolver, the message    *)
(* mutation batcher and the scroll-activity tracker.                       *)
(*                                                                         *)
(* Strings are sequences of UTF-16 code units (naturals), so that          *)
(* trimming, whitespace collapsing, hashing and key concatenation are      *)
(* computed the way the code computes them.  JavaScript Maps are           *)
(* sequences of [k, v] records in insertion order.                         *)
(***************************************************************************)
EXTENDS Integers, Sequences, FiniteSets, TLC

(***************************************************************************)
(* String constants of the program.                                        *)
(***************************************************************************)
\* "https://api.cognitive.microsofttranslator.com"
DEFAULT_AZURE_ENDPOINT ==
    <<104,116,116,112,115,58,47,47,97,112,105,46,99,111,103,110,105,116,105,
      118,101,46,109,105,99,114,111,115,111,102,116,116,114,97,110,115,108,
      97,116,111,114,46,99,111,109>>
\* "sv"
DEFAULT_TARGET_LANGUAGE == <<115,118>>
\* BackendMode: "azure-google-fallback", "azure-only", "google-only"
AzureGoogleFallback ==
    <<97,122,117,114,101,45,103,111,111,103,108,101,45,102,97,108,108,98,97,99,107>>
AzureOnly == <<97,122,117,114,101,45,111,110,108,121>>
GoogleOnly == <<103,111,111,103,108,101,45,111,110,108,121>>
\* "with-key", "no-key"
WithKey == <<119,105,116,104,45,107,101,121>>
NoKey == <<110,111,45,107,101,121>>

(***************************************************************************)
(* String primitives: String.prototype.trim, the regular expression \s,    *)
(* toLowerCase (on the ASCII letters), Array.prototype.join, and the       *)
(* decimal rendering of a number in a template string.                     *)
(***************************************************************************)
WhiteSpace ==
    {9, 10, 11, 12, 13, 32, 160, 5760, 8232, 8233, 8239, 8287, 12288, 65279}
        \cup (8192..8202)

IsSpace(c) == c \in WhiteSpace

RECURSIVE TrimStart(_)
TrimStart(s) ==
    IF Len(s) > 0 /\ IsSpace(Head(s)) THEN TrimStart(Tail(s)) ELSE s

RECURSIVE TrimEnd(_)
TrimEnd(s) ==
    IF Len(s) > 0 /\ IsSpace(s[Len(s)])
    THEN TrimEnd(SubSeq(s, 1, Len(s) - 1))
    ELSE s

Trim(s) == TrimEnd(TrimStart(s))

\* text.replace(/\s+/g, " ")
RECURSIVE CollapseSpaces(_)
CollapseSpaces(s) ==
    IF Len(s) = 0 THEN <<>>
    ELSE IF IsSpace(Head(s))
         THEN <<32>> \o CollapseSpaces(TrimStart(Tail(s)))
         ELSE <<Head(s)>> \o CollapseSpaces(Tail(s))

ToLowerCase(s) ==
    [i \in 1..Len(s) |-> IF s[i] \in 65..90 THEN s[i] + 32 ELSE s[i]]

\* raw.replace(/\/+$/, "")
RECURSIVE StripTrailingSlashes(_)
StripTrailingSlashes(s) ==
    IF Len(s) > 0 /\ s[Len(s)] = 47
    THEN StripTrailingSlashes(SubSeq(s, 1, Len(s) - 1))
    ELSE s

RECURSIVE Join(_, _)
Join(parts, sep) ==
    IF Len(parts) = 0 THEN <<>>
    ELSE IF Len(parts) = 1 THEN parts[1]
    ELSE parts[1] \o <<sep>> \o Join(Tail(parts), sep)

RECURSIVE ToDecimal(_)
ToDecimal(n) ==
    IF n < 10 THEN <<48 + n>> ELSE ToDecimal(n \div 10) \o <<48 + (n % 10)>>

(***************************************************************************)
(* Memory key codec.                                                       *)
(***************************************************************************)
normalizeTargetLanguage(targetLanguage) ==
    LET trimmed == Trim(targetLanguage)
    IN  ToLowerCase(IF Len(trimmed) > 0 THEN trimmed ELSE DEFAULT_TARGET_LANGUAGE)

\* text.trim(), without the replace.
TrimOnly(text) == Trim(text)

normalizeTextForMemory(text) == CollapseSpaces(Trim(text))

\* Bitwise exclusive or of two naturals.
RECURSIVE BitXor(_, _)
BitXor(a, b) ==
    IF a = 0 THEN b
    ELSE IF b = 0 THEN a
    ELSE (((a % 2) + (b % 2)) % 2) + 2 * BitXor(a \div 2, b \div 2)

\* One iteration of hashText's loop on the 32-bit hash, kept as the pair
\* <<high 16 bits, low 16 bits>>: hash ^= c, then hash is multiplied by
\* 1 + 2^1 + 2^4 + 2^7 + 2^8 + 2^24 = 2^24 + 403, modulo 2^32.
HashStep(h, c) ==
    LET lo == BitXor(h[2], c % 65536)
        p  == lo * 403
    IN  << (h[1] * 403 + lo * 256 + (p \div 65536)) % 65536, p % 65536 >>

RECURSIVE HashLoop(_, _)
HashLoop(h, s) ==
    IF Len(s) = 0 THEN h ELSE HashLoop(HashStep(h, Head(s)), Tail(s))

HexDigit(d) == IF d < 10 THEN 48 + d ELSE 87 + d

Hex4(n) ==
    << HexDigit(n \div 4096), HexDigit((n \div 256) % 16),
       HexDigit((n \div 16) % 16), HexDigit(n % 16) >>

\* 2166136261 = 33052 * 65536 + 40389; the result is the 8-digit hex digest.
hashText(input) ==
    LET h == HashLoop(<<33052, 40389>>, input)
    IN  Hex4(h[1]) \o Hex4(h[2])

makePersistentMemoryKey(text, translatorConfigFingerprint) ==
    LET normalized == normalizeTextForMemory(text)
    IN  translatorConfigFingerprint \o <<58>> \o ToDecimal(Len(normalized))
            \o <<58>> \o hashText(normalized)

getMessageCacheKey(messageId, sourceContent, translatorConfigFingerprint) ==
    messageId \o <<58>> \o sourceContent \o <<58>> \o translatorConfigFingerprint

(***************************************************************************)
(* Config fingerprint.                                                     *)
(***************************************************************************)
normalizeAzureEndpoint(endpoint) ==
    LET trimmed == Trim(endpoint)
        raw     == IF Len(trimmed) > 0 THEN trimmed ELSE DEFAULT_AZURE_ENDPOINT
    IN  StripTrailingSlashes(raw)

\* Boolean(...), with the key taken as present.
AlwaysConfigured(s) == TRUE

hasAzureConfig(s) == Len(Trim(s.azureApiKey)) > 0

\* The join without its first element, the normalised target language.
FingerprintWithoutLanguage(s) ==
    Join(<< s.translationBackend,
            normalizeAzureEndpoint(s.azureEndpoint),
            ToLowerCase(Trim(s.azureRegion)),
            IF Len(Trim(s.azureApiKey)) > 0 THEN WithKey ELSE NoKey >>, 124)

getTranslatorConfigFingerprint(s) ==
    Join(<< normalizeTargetLanguage(s.targetLanguage),
            s.translationBackend,
            normalizeAzureEndpoint(s.azureEndpoint),
            ToLowerCase(Trim(s.azureRegion)),
            IF Len(Trim(s.azureApiKey)) > 0 THEN WithKey ELSE NoKey >>, 124)

(***************************************************************************)
(* JavaScript Map: a sequence of [k, v] records in insertion order.        *)
(* Setting an existing key keeps its position; deleting removes it.        *)
(***************************************************************************)
MapKeys(m) == {m[i].k : i \in 1..Len(m)}

MapHas(m, key) == \E i \in 1..Len(m) : m[i].k = key

MapGet(m, key) == m[CHOOSE i \in 1..Len(m) : m[i].k = key].v

MapSet(m, key, val) ==
    IF MapHas(m, key)
    THEN [i \in 1..Len(m) |-> IF m[i].k = key THEN [k |-> key, v |-> val] ELSE m[i]]
    ELSE Append(m, [k |-> key, v |-> val])

MapDelete(m, key) == SelectSeq(m, LAMBDA e : e.k # key)

\* `const x = value; return Rest(x)`: the value is computed once and the
\* rest of the function body goes on with it.
Then(value, Rest(_)) == CHOOSE r \in {Rest(x) : x \in {value}} : TRUE

(***************************************************************************)
(* Message strings of the program.                                         *)
(***************************************************************************)
\* "translation unavailable"
MsgTranslationUnavailable ==
    <<116,114,97,110,115,108,97,116,105,111,110,32,117,110,97,118,97,105,108,
      97,98,108,101>>
\* "set azure key in plugin settings"
MsgSetAzureKey ==
    <<115,101,116,32,97,122,117,114,101,32,107,101,121,32,105,110,32,112,108,
      117,103,105,110,32,115,101,116,116,105,110,103,115>>
\* "Azure translation failed ("
MsgAzureFailedPrefix ==
    <<65,122,117,114,101,32,116,114,97,110,115,108,97,116,105,111,110,32,102,
      97,105,108,101,100,32,40>>
\* "-1 network/request failure"
MsgNetworkFailure ==
    <<45,49,32,110,101,116,119,111,114,107,47,114,101,113,117,101,115,116,32,
      102,97,105,108,117,114,101>>
\* "Azure translation response did not include translated text"
MsgNoTranslatedText ==
    <<65,122,117,114,101,32,116,114,97,110,115,108,97,116,105,111,110,32,114,
      101,115,112,111,110,115,101,32,100,105,100,32,110,111,116,32,105,110,
      99,108,117,100,101,32,116,114,97,110,115,108,97,116,101,100,32,116,101,
      120,116>>
\* "auto", "en"
LangAuto == <<97,117,116,111>>
LangEn == <<101,110>>

(***************************************************************************)
(* TranslationState.  One record shape for every variant; NullState is the *)
(* null a lookup returns.                                                  *)
(***************************************************************************)
ReadyState(sourceLanguage, text) ==
    [status |-> "ready", sourceLanguage |-> sourceLanguage, text |-> text,
     message |-> <<>>]

ErrorState(message) ==
    [status |-> "error", sourceLanguage |-> <<>>, text |-> <<>>,
     message |-> message]

NullState ==
    [status |-> "null", sourceLanguage |-> <<>>, text |-> <<>>, message |-> <<>>]

IdleState ==
    [status |-> "idle", sourceLanguage |-> <<>>, text |-> <<>>, message |-> <<>>]

\* A LingoAccessory as first rendered: its showOriginal and translation
\* states, the isScrolling value and the visibility it was last rendered
\* with, and whether a change of its message awaits a render.
InitialAccessory ==
    [showOriginal |-> FALSE, translation |-> IdleState, isScrolling |-> FALSE,
     visible |-> TRUE, dirty |-> FALSE]

(***************************************************************************)
(* Persistent translation memory.  A store is the record                   *)
(* [mem: the Map persistentTranslationMemory, timer: persistMemoryTimer,   *)
(* due: the time at which the timer fires].                                *)
(***************************************************************************)
\* 24 * 60 * 60 * 1000
DAY_MS == 86400000

getPersistentCacheTtlMs(s) == s.persistentCacheTtlDays * DAY_MS

\* now - entry.cachedAt > ttl, with the comparison dropped.
NeverExpired(entry, t, s) == FALSE

isPersistentEntryExpired(entry, t, s) ==
    t - entry.cachedAt > getPersistentCacheTtlMs(s)

\* The position of entry i in [...entries()].sort(by lastUsedAt): the sort is
\* stable, so equal lastUsedAt keep the Map's order.
SortRank(m, i) ==
    Cardinality({j \in 1..Len(m) :
        \/ m[j].v.lastUsedAt < m[i].v.lastUsedAt
        \/ (m[j].v.lastUsedAt = m[i].v.lastUsedAt /\ j < i)})

\* The overflow taken from the front of the Map instead of from the sort.
PruneOldestInserted(mem, s, t) ==
    LET live == SelectSeq(mem, LAMBDA e : ~isPersistentEntryExpired(e.v, t, s))
    IN  IF Len(live) <= s.persistentCacheMaxEntries
        THEN live
        ELSE SubSeq(live, Len(live) - s.persistentCacheMaxEntries + 1, Len(live))

prunePersistentMemory(mem, s, t) ==
    LET live     == SelectSeq(mem, LAMBDA e : ~isPersistentEntryExpired(e.v, t, s))
        overflow == Len(live) - s.persistentCacheMaxEntries
        idx      == {i \in 1..Len(live) : SortRank(live, i) < overflow}
        keep(n)  == CHOOSE i \in (1..Len(live)) \ idx :
                        Cardinality({j \in (1..Len(live)) \ idx : j < i}) = n - 1
    IN  IF Len(live) <= s.persistentCacheMaxEntries
        THEN live
        ELSE [n \in 1..(Len(live) - Cardinality(idx)) |-> live[keep(n)]]

\* The delay of the save timer, in milliseconds.
SAVE_DELAY_MS == 2000

schedulePersistentMemorySave(timer, s) ==
    IF ~s.persistentCacheEnabled THEN timer ELSE TRUE

\* The time at which the timer set by schedulePersistentMemorySave fires:
\* the pending timer is cleared and a new one is set, SAVE_DELAY_MS from t.
saveTimerDue(due, s, t) ==
    IF ~s.persistentCacheEnabled THEN due ELSE t + SAVE_DELAY_MS

\* entry.normalizedSource !== normalized, negated.
AnySourceMatches(entry, normalized) == TRUE

sourceMatches(entry, normalized) == entry.normalizedSource = normalized

\* A lookup that never finds anything.
LookupAlwaysMisses(store, text, fp, s, t) ==
    [store |-> store, result |-> NullState, path |-> "absent"]

\* The body of tryGetPersistentTranslation after ensurePersistentMemoryLoaded
\* has completed: [store, result, path], path naming the return taken.
tryGetPersistentTranslation(store, text, fp, s, t) ==
    LET normalized == normalizeTextForMemory(text)
        key        == makePersistentMemoryKey(text, fp)
        miss(path) == [store |-> store, result |-> NullState, path |-> path]
    IN  IF ~s.persistentCacheEnabled THEN miss("disabled")
        ELSE IF Len(normalized) = 0 THEN miss("empty")
        ELSE IF ~MapHas(store.mem, key) THEN miss("absent")
        ELSE LET entry == MapGet(store.mem, key)
             IN  IF ~sourceMatches(entry, normalized) THEN miss("mismatch")
                 ELSE IF isPersistentEntryExpired(entry, t, s)
                 THEN [store  |-> [mem   |-> MapDelete(store.mem, key),
                                   timer |-> schedulePersistentMemorySave(store.timer, s),
                                   due   |-> saveTimerDue(store.due, s, t)],
                       result |-> NullState,
                       path   |-> "expired"]
                 ELSE [store  |-> [mem   |-> MapSet(store.mem, key,
                                                [entry EXCEPT !.lastUsedAt = t]),
                                   timer |-> schedulePersistentMemorySave(store.timer, s),
                                   due   |-> saveTimerDue(store.due, s, t)],
                       result |-> ReadyState(entry.sourceLanguage, entry.translatedText),
                       path   |-> "hit"]

rememberPersistentTranslation(store, text, fp, state, s, t) ==
    LET normalized == normalizeTextForMemory(text)
        key        == makePersistentMemoryKey(text, fp)
        entry      == [normalizedSource |-> normalized,
                       translatedText   |-> state.text,
                       sourceLanguage   |-> state.sourceLanguage,
                       cachedAt         |-> t,
                       lastUsedAt       |-> t]
    IN  IF ~s.persistentCacheEnabled THEN store
        ELSE IF state.status # "ready" THEN store
        ELSE IF Len(normalized) = 0 THEN store
        ELSE [mem   |-> prunePersistentMemory(MapSet(store.mem, key, entry), s, t),
              timer |-> schedulePersistentMemorySave(store.timer, s),
              due   |-> saveTimerDue(store.due, s, t)]

(***************************************************************************)
(* Durable storage.  DataStore maps a key to what was stored under it: a   *)
(* value is [kind, items], kind "undefined" for a key never written,       *)
(* "object" for a value that is no array, "array" for an array; an item of *)
(* an array is [iterable, k, v]: the pair [k, v], or, with iterable FALSE, *)
(* a value that cannot be destructured (null, a number).                   *)
(***************************************************************************)
PERSISTENT_CACHE_DATASTORE_KEY == "Lingo_translationMemory_v1"

LEGACY_PERSISTENT_CACHE_DATASTORE_KEYS ==
    << "LanguageLearningImmersion_translationMemory_v1",
       "AutoSwedishImmersion_translationMemory_v1" >>

\* The keys in the order ensurePersistentMemoryLoaded reads them.
LoadKeys == <<PERSISTENT_CACHE_DATASTORE_KEY>> \o LEGACY_PERSISTENT_CACHE_DATASTORE_KEYS

DataStoreKeys == {LoadKeys[i] : i \in 1..Len(LoadKeys)}

StoredUndefined == [kind |-> "undefined", items |-> <<>>]

StoredObject == [kind |-> "object", items |-> <<>>]

StoredArray(items) == [kind |-> "array", items |-> items]

\* [...persistentTranslationMemory.entries()]
EntriesArray(mem) ==
    StoredArray([i \in 1..Len(mem) |->
                    [iterable |-> TRUE, k |-> mem[i].k, v |-> mem[i].v]])

\* A DataStore nothing was ever written to.
EmptyDataStore == [key \in DataStoreKeys |-> StoredUndefined]

(***************************************************************************)
(* Backend adapters.  A response is what the wire call answered; the       *)
(* adapter turns it into [ok, value] (a TranslationValue) or [ok = FALSE,  *)
(* message] (the Error thrown).                                            *)
(***************************************************************************)
AdapterOk(sourceLanguage, text) ==
    [ok |-> TRUE, sourceLanguage |-> sourceLanguage, text |-> text, message |-> <<>>]

AdapterFail(message) ==
    [ok |-> FALSE, sourceLanguage |-> <<>>, text |-> <<>>, message |-> message]

\* response: [ok: response.ok, sourceLanguage, translation] of the JSON body.
fetchGoogleTranslation(text, targetLanguage, response) ==
    IF ~response.ok
    THEN AdapterFail(response.message)
    ELSE AdapterOk(IF Len(response.sourceLanguage) > 0
                   THEN response.sourceLanguage ELSE LangAuto,
                   IF Len(response.translation) > 0
                   THEN response.translation ELSE text)

\* response: [status, message: the error message of the body, language: the
\* detected language, translation: the translated text] of the native call.
fetchAzureTranslation(text, targetLanguage, response) ==
    IF response.status < 200 \/ response.status >= 300
    THEN LET statusPart == IF response.status = -1
                           THEN MsgNetworkFailure
                           ELSE ToDecimal(response.status)
             detail     == IF Len(Trim(response.message)) > 0
                           THEN <<32, 45, 32>> \o Trim(response.message)
                           ELSE <<>>
         IN  AdapterFail(Trim(MsgAzureFailedPrefix \o statusPart \o <<41>> \o detail))
    ELSE IF Len(response.translation) = 0
         THEN AdapterFail(MsgNoTranslatedText)
         ELSE AdapterOk(IF Len(response.language) > 0
                        THEN response.language ELSE LangAuto,
                        response.translation)

wrapReady(value) == ReadyState(value.sourceLanguage, value.text)

(***************************************************************************)
(* Bounds of the model and the input sets the actions draw from.           *)
(***************************************************************************)
\* The number of requestTranslation promises alive at once.
MaxRequests == 3

\* MAX_IN_MEMORY_TRANSLATIONS, scaled down from the program's 2500 so that
\* the eviction of the volatile cache happens within the model's keys.
MAX_IN_MEMORY_TRANSLATIONS == 2

RequestIds == 1..MaxRequests

\* Message ids "1", "2".
MessageIds == {<<49>>, <<50>>}

\* Channel id "9".
ChannelId == <<57>>

\* The value of a field that a message does not carry: no string of the
\* program has the code unit -1.
Undefined == <<-1>>

\* Source texts of the pipeline: "hi".
PipeTexts == {<<104, 105>>}

\* Target languages a settings change may set: "sv" and "SV " (the same
\* language after normalisation, so the fingerprint stays the same).
PipeTargetLanguages == {<<115, 118>>, <<83, 86, 32>>}

\* settings.store after plugin start; the Azure key is "k", the endpoint "e".
BaseSettings ==
    [targetLanguage            |-> DEFAULT_TARGET_LANGUAGE,
     translationBackend        |-> AzureGoogleFallback,
     azureApiKey               |-> <<107>>,
     azureRegion               |-> <<>>,
     azureEndpoint             |-> <<101>>,
     onlyTranslateVisible      |-> TRUE,
     maxConcurrentRequests     |-> 2,
     persistentCacheEnabled    |-> TRUE,
     persistentCacheTtlDays    |-> 1,
     persistentCacheMaxEntries |-> 100]

\* What the translation services answer for a text: the translation carries
\* the service ("A", "G"), the target language and the source text.
AzureTranslate(text, targetLanguage) == <<65>> \o targetLanguage \o <<58>> \o text
GoogleTranslate(text, targetLanguage) == <<71>> \o targetLanguage \o <<58>> \o text

AzureResponses(text, targetLanguage) ==
    { [status |-> 200, message |-> <<>>, language |-> LangEn,
       translation |-> AzureTranslate(text, targetLanguage)],
      [status |-> 401, message |-> <<>>, language |-> <<>>, translation |-> <<>>] }

GoogleResponses(text, targetLanguage) ==
    { [ok |-> TRUE, message |-> <<>>, sourceLanguage |-> LangEn,
       translation |-> GoogleTranslate(text, targetLanguage)],
      [ok |-> FALSE, message |-> <<>>, sourceLanguage |-> <<>>, translation |-> <<>>] }

(***************************************************************************)
(* The state of the program.                                               *)
(***************************************************************************)
VARIABLES
    settings,                     \* settings.store
    now,                          \* Date.now(), in milliseconds
    translationCache,             \* Map: message cache key -> TranslationState
    inFlightRequests,             \* Map: message cache key -> request id
    requestQueue,                 \* the queued run closures, as request ids
    activeRequests,
    requests,                     \* the pending requestTranslation promises
    persistentTranslationMemory,  \* Map: memory key -> PersistentTranslationEntry
    persistMemoryTimer,           \* TRUE while the save timer is pending
    persistMemoryTimerDue,        \* the time at which the save timer fires
    persistentCacheLoaded,
    persistentCacheLoadPromise,   \* TRUE while the load of the memory runs
    dataStore,                    \* DataStore: durable key -> stored value
    dataStoreReads,               \* the keys DataStore.get was called with,
                                  \* in order; the last call is outstanding
                                  \* while the load runs
    pendingMessageMutations,      \* Map: message id -> mutation
    mutationFlushTimer,           \* 0: no timer; else the delay it was set with
    isScrollActive,
    scrollIdleTimer,              \* TRUE while the scroll-idle timer is pending
    translatedMessageState,       \* Map: message id -> tracked contents
    messages,                     \* the host's message store
    accessory,                    \* per message: the LingoAccessory's state
    ret                           \* what the last step did (observation only)

vars ==
    << settings, now, translationCache, inFlightRequests, requestQueue,
       activeRequests, requests, persistentTranslationMemory,
       persistMemoryTimer, persistMemoryTimerDue, persistentCacheLoaded,
       persistentCacheLoadPromise, dataStore, dataStoreReads,
       pendingMessageMutations,
       mutationFlushTimer, isScrollActive, scrollIdleTimer,
       translatedMessageState, messages, accessory, ret >>

\* The state as one record, which the handlers below transform.
World ==
    [settings                    |-> settings,
     now                         |-> now,
     translationCache            |-> translationCache,
     inFlightRequests            |-> inFlightRequests,
     requestQueue                |-> requestQueue,
     activeRequests              |-> activeRequests,
     requests                    |-> requests,
     persistentTranslationMemory |-> persistentTranslationMemory,
     persistMemoryTimer          |-> persistMemoryTimer,
     persistMemoryTimerDue       |-> persistMemoryTimerDue,
     persistentCacheLoaded       |-> persistentCacheLoaded,
     persistentCacheLoadPromise  |-> persistentCacheLoadPromise,
     dataStore                   |-> dataStore,
     dataStoreReads              |-> dataStoreReads,
     pendingMessageMutations     |-> pendingMessageMutations,
     mutationFlushTimer          |-> mutationFlushTimer,
     isScrollActive              |-> isScrollActive,
     scrollIdleTimer             |-> scrollIdleTimer,
     translatedMessageState      |-> translatedMessageState,
     messages                    |-> messages,
     accessory                   |-> accessory,
     ret                         |-> ret]

\* The state a handler leaves becomes the state of the program.
Becomes(w) ==
    \E after \in {w} :
        /\ settings' = after.settings
        /\ now' = after.now
        /\ translationCache' = after.translationCache
        /\ inFlightRequests' = after.inFlightRequests
        /\ requestQueue' = after.requestQueue
        /\ activeRequests' = after.activeRequests
        /\ requests' = after.requests
        /\ persistentTranslationMemory' = after.persistentTranslationMemory
        /\ persistMemoryTimer' = after.persistMemoryTimer
        /\ persistMemoryTimerDue' = after.persistMemoryTimerDue
        /\ persistentCacheLoaded' = after.persistentCacheLoaded
        /\ persistentCacheLoadPromise' = after.persistentCacheLoadPromise
        /\ dataStore' = after.dataStore
        /\ dataStoreReads' = after.dataStoreReads
        /\ pendingMessageMutations' = after.pendingMessageMutations
        /\ mutationFlushTimer' = after.mutationFlushTimer
        /\ isScrollActive' = after.isScrollActive
        /\ scrollIdleTimer' = after.scrollIdleTimer
        /\ translatedMessageState' = after.translatedMessageState
        /\ messages' = after.messages
        /\ accessory' = after.accessory
        /\ ret' = after.ret

\* The observation of a step: the operation, the request it returned or
\* settled, the key, text or message id it was called with, the
\* TranslationState it returned and the return it took, the requests whose
\* backend task started, the queued requests dropped without running (or
\* the entries removed from the persistent memory), the updateMessage
\* calls made, in order, what the backend adapter answered, and the
\* requests whose fetchTranslation returned, each with the state returned
\* and the backends it had called, in order, and the keys that
\* pruneInMemoryTranslationCache deleted.
Observation(op) ==
    [op |-> op, req |-> 0, arg |-> <<>>, result |-> NullState, path |-> "",
     started |-> {}, dropped |-> {}, updates |-> <<>>,
     answer |-> AdapterFail(<<>>), settled |-> {}, evicted |-> {},
     raised |-> FALSE, enqueued |-> <<>>]

Begin(op) == [World EXCEPT !.ret = Observation(op)]

Store(w) ==
    [mem |-> w.persistentTranslationMemory, timer |-> w.persistMemoryTimer,
     due |-> w.persistMemoryTimerDue]

WithStore(w, store) ==
    [w EXCEPT !.persistentTranslationMemory = store.mem,
              !.persistMemoryTimer = store.timer,
              !.persistMemoryTimerDue = store.due]

(***************************************************************************)
(* Loading and saving the persistent memory.                               *)
(***************************************************************************)
\* !entry?.normalizedSource || !entry?.translatedText || !entry?.sourceLanguage,
\* negated: an empty string is falsy.
isWellFormedEntry(entry) ==
    /\ Len(entry.normalizedSource) > 0
    /\ Len(entry.translatedText) > 0
    /\ Len(entry.sourceLanguage) > 0

\* The for loop of loadCache: [mem, loadedAny, threw].  Destructuring an
\* item that is not iterable throws a TypeError.
RECURSIVE loadItems(_, _, _)
loadItems(mem, items, loadedAny) ==
    IF Len(items) = 0
    THEN [mem |-> mem, loadedAny |-> loadedAny, threw |-> FALSE]
    ELSE IF ~Head(items).iterable
    THEN [mem |-> mem, loadedAny |-> loadedAny, threw |-> TRUE]
    ELSE IF ~isWellFormedEntry(Head(items).v)
    THEN loadItems(mem, Tail(items), loadedAny)
    ELSE loadItems(MapSet(mem, Head(items).k, Head(items).v), Tail(items), TRUE)

\* loadCache once DataStore.get has resolved with `cached`.
loadCache(mem, cached) ==
    IF cached.kind # "array"
    THEN [mem |-> mem, loadedAny |-> FALSE, threw |-> FALSE]
    ELSE loadItems(mem, cached.items, FALSE)

\* The load that starts whenever the memory is not loaded, whether or not
\* a load is running.
LoadWithoutSharing(w) ==
    IF ~w.settings.persistentCacheEnabled THEN [w EXCEPT !.ret.path = "disabled"]
    ELSE IF w.persistentCacheLoaded THEN [w EXCEPT !.ret.path = "loaded"]
    ELSE [w EXCEPT !.persistentCacheLoadPromise = TRUE,
                   !.dataStoreReads = Append(@, PERSISTENT_CACHE_DATASTORE_KEY),
                   !.ret.path = "started"]

\* A call of ensurePersistentMemoryLoaded, up to its first await: the
\* DataStore.get of the current key is issued.
ensurePersistentMemoryLoaded(w) ==
    IF ~w.settings.persistentCacheEnabled THEN [w EXCEPT !.ret.path = "disabled"]
    ELSE IF w.persistentCacheLoaded THEN [w EXCEPT !.ret.path = "loaded"]
    ELSE IF w.persistentCacheLoadPromise THEN [w EXCEPT !.ret.path = "shared"]
    ELSE [w EXCEPT !.persistentCacheLoadPromise = TRUE,
                   !.dataStoreReads = Append(@, PERSISTENT_CACHE_DATASTORE_KEY),
                   !.ret.path = "started"]

\* The finally block of the load.
loadSettled(w) ==
    [w EXCEPT !.persistentCacheLoaded = TRUE,
              !.persistentCacheLoadPromise = FALSE]

\* The end of the try block: prunePersistentMemory(), then the finally.
loadCompleted(w) ==
    loadSettled(
        [w EXCEPT !.persistentTranslationMemory =
                      prunePersistentMemory(@, w.settings, w.now)])

\* The load resumes after the DataStore.get it awaits: the read was
\* rejected, or it resolved with `cached`.  The load reads the next key,
\* or ends.
loadResumes(w, rejected, cached) ==
    LET position == CHOOSE i \in 1..Len(LoadKeys) :
                        LoadKeys[i] = w.dataStoreReads[Len(w.dataStoreReads)]
        got      == loadCache(w.persistentTranslationMemory, cached)
        w1       == [w EXCEPT !.persistentTranslationMemory = got.mem]
        readNext == [w1 EXCEPT !.dataStoreReads = Append(@, LoadKeys[position + 1]),
                               !.ret.path = "next"]
    IN  IF rejected THEN loadSettled([w EXCEPT !.ret.path = "rejected"])
        ELSE IF got.threw THEN loadSettled([w1 EXCEPT !.ret.path = "threw"])
        ELSE IF position = 1
        THEN IF got.loadedAny
             THEN loadCompleted([w1 EXCEPT !.ret.path = "current"])
             ELSE readNext
        ELSE IF got.loadedAny
        THEN loadCompleted(
                 [w1 EXCEPT
                     !.persistMemoryTimer =
                         schedulePersistentMemorySave(@, w.settings),
                     !.persistMemoryTimerDue =
                         saveTimerDue(@, w.settings, w.now),
                     !.ret.path = "legacy"])
        ELSE IF position < Len(LoadKeys) THEN readNext
        ELSE loadCompleted([w1 EXCEPT !.ret.path = "none"])

\* persistMemoryNow without its prunePersistentMemory call.
WriteUnpruned(w) ==
    IF ~w.settings.persistentCacheEnabled THEN w
    ELSE [w EXCEPT !.dataStore[PERSISTENT_CACHE_DATASTORE_KEY] =
                       EntriesArray(w.persistentTranslationMemory),
                   !.ret.path = "written"]

\* persistMemoryNow up to its await: the memory is pruned and the
\* DataStore.set of the current key is issued.
persistMemoryNow(w) ==
    IF ~w.settings.persistentCacheEnabled THEN w
    ELSE LET pruned == prunePersistentMemory(w.persistentTranslationMemory,
                           w.settings, w.now)
         IN  [w EXCEPT !.persistentTranslationMemory = pruned,
                       !.dataStore[PERSISTENT_CACHE_DATASTORE_KEY] =
                           EntriesArray(pruned),
                       !.ret.path = "written"]

(***************************************************************************)
(* Volatile cache, scheduler and request pipeline.                         *)
(***************************************************************************)
\* The while loop deleting from the end of the Map instead of its front.
PruneNewestInserted(cache) ==
    IF Len(cache) > MAX_IN_MEMORY_TRANSLATIONS
    THEN SubSeq(cache, 1, MAX_IN_MEMORY_TRANSLATIONS)
    ELSE cache

pruneInMemoryTranslationCache(cache) ==
    IF Len(cache) > MAX_IN_MEMORY_TRANSLATIONS
    THEN SubSeq(cache, Len(cache) - MAX_IN_MEMORY_TRANSLATIONS + 1, Len(cache))
    ELSE cache

RequestKey(req) == getMessageCacheKey(req.messageId, req.sourceContent, req.fp)

\* translationCache.set(key, result); pruneInMemoryTranslationCache()
cacheResult(w, key, result) ==
    LET stored == MapSet(w.translationCache, key, result)
        pruned == pruneInMemoryTranslationCache(stored)
    IN  [w EXCEPT !.translationCache = pruned,
                  !.ret.evicted = @ \cup (MapKeys(stored) \ MapKeys(pruned))]

RECURSIVE run(_, _)
RECURSIVE settle(_, _, _)

\* The run closure of scheduleTranslation: activeRequests++ and task(),
\* that is fetchTranslation up to its first network call.
run(w, r) ==
    LET s    == w.settings
        mode == s.translationBackend
        w1   == [w EXCEPT !.activeRequests = @ + 1,
                          !.ret.started = @ \cup {r},
                          !.requests[r].backendMode = mode]
    IN  IF mode = GoogleOnly
        THEN [w1 EXCEPT !.requests[r].phase = "google",
                        !.requests[r].calls = Append(@, "google")]
        ELSE IF ~hasAzureConfig(s) /\ mode = AzureOnly
        THEN settle(w1, r, ErrorState(MsgSetAzureKey))
        ELSE IF hasAzureConfig(s)
        THEN [w1 EXCEPT !.requests[r].phase = "azure",
                        !.requests[r].calls = Append(@, "azure")]
        ELSE [w1 EXCEPT !.requests[r].phase = "google",
                        !.requests[r].calls = Append(@, "google")]

\* fetchTranslation has returned `result` for request r: the awaiting
\* requestTranslation remembers and caches it and leaves the in-flight
\* registry, then the scheduler's finally block admits the next queued task.
settle(w, r, result) ==
    LET req   == w.requests[r]
        key   == RequestKey(req)
        store == rememberPersistentTranslation(Store(w), req.sourceContent,
                     req.fp, result, w.settings, w.now)
        w1    == [cacheResult(WithStore(w, store), key, result) EXCEPT
                     !.inFlightRequests = MapDelete(@, key),
                     !.requests = [x \in (DOMAIN @) \ {r} |-> @[x]],
                     !.activeRequests = @ - 1,
                     !.ret.settled = @ \cup {[req |-> r, result |-> result,
                                              calls |-> req.calls]}]
    IN  IF Len(w1.requestQueue) > 0
        THEN run([w1 EXCEPT !.requestQueue = Tail(@)], Head(w1.requestQueue))
        ELSE w1

\* The catch block of fetchTranslation's Azure call, with the error
\* returned whatever the backend mode.
SurfaceAzureFailure(w, r, message) == settle(w, r, ErrorState(message))

\* The same catch block, falling through whatever the backend mode.
FallThroughToGoogle(w, r, message) ==
    [w EXCEPT !.requests[r].phase = "google",
              !.requests[r].calls = Append(@, "google")]

\* fetchAzureTranslation threw: azure-only returns the error with its
\* message, any other mode goes on to the Google call.
azureFailed(w, r, message) ==
    IF w.requests[r].backendMode = AzureOnly
    THEN settle(w, r, ErrorState(message))
    ELSE [w EXCEPT !.requests[r].phase = "google",
                   !.requests[r].calls = Append(@, "google")]

\* The try block around the Google call, with the result dropped.
GoogleResultDiscarded(w, r, answer) ==
    settle(w, r, ErrorState(MsgTranslationUnavailable))

\* The same block, with the adapter's own message in the error.
GoogleFailureSurfaced(w, r, answer) ==
    IF answer.ok
    THEN settle(w, r, wrapReady(answer))
    ELSE settle(w, r, ErrorState(answer.message))

\* fetchGoogleTranslation returned or threw.
googleAnswered(w, r, answer) ==
    IF answer.ok
    THEN settle(w, r, wrapReady(answer))
    ELSE settle(w, r, ErrorState(MsgTranslationUnavailable))

scheduleTranslation(w, r) ==
    LET configured == w.settings.maxConcurrentRequests
        maxConcurrentRequests ==
            IF configured = 0 \/ configured < 1 THEN 1 ELSE configured
    IN  IF w.activeRequests < maxConcurrentRequests
        THEN run(w, r)
        ELSE [w EXCEPT !.requestQueue = Append(@, r)]

NewRequestId(w) == CHOOSE r \in RequestIds : r \notin DOMAIN w.requests

\* inFlightRequests.get(key), as the test `if (currentRequest)`.
NoRequestInFlight(w, key) == FALSE

hasRequestInFlight(w, key) == MapHas(w.inFlightRequests, key)

\* translationCache.get(key), as the test `if (cached)`, always failing.
NeverCached(w, key) == FALSE

\* translationCache.get(key), as the test `if (cached)`.
hasCachedState(w, key) == MapHas(w.translationCache, key)

requestTranslation(w, messageId, sourceContent, fp) ==
    LET key == getMessageCacheKey(messageId, sourceContent, fp)
    IN  IF hasCachedState(w, key)
        THEN [w EXCEPT !.ret.result = MapGet(w.translationCache, key)]
        ELSE IF hasRequestInFlight(w, key)
        THEN [w EXCEPT !.ret.req = MapGet(w.inFlightRequests, key)]
        ELSE
        LET r      == NewRequestId(w)
            lookup == tryGetPersistentTranslation(Store(w), sourceContent, fp,
                          w.settings, w.now)
            w1     == WithStore(w, lookup.store)
        IN  IF lookup.result.status # "null"
            THEN [cacheResult(w1, key, lookup.result) EXCEPT
                     !.ret.result = lookup.result]
            ELSE scheduleTranslation(
                     [w1 EXCEPT
                         !.inFlightRequests = MapSet(@, key, r),
                         !.requests = [x \in (DOMAIN @) \cup {r} |->
                             IF x = r
                             THEN [messageId      |-> messageId,
                                   sourceContent  |-> sourceContent,
                                   fp             |-> fp,
                                   targetLanguage |->
                                       normalizeTargetLanguage(w.settings.targetLanguage),
                                   backendMode    |-> <<>>,
                                   calls          |-> <<>>,
                                   phase          |-> "queued"]
                             ELSE @[x]],
                         !.ret.req = r],
                     r)

(***************************************************************************)
(* Message write-back and invalidation.                                    *)
(***************************************************************************)
\* updateMessage on the host's store: a message that is updated is a new
\* object to its accessory, which renders again; for a message that is gone
\* the host raises, and ret.raised says that an exception is on its way up
\* the stack.
updateMessage(w, channelId, messageId, content, originalContent, translatedContent) ==
    IF ~w.messages[messageId].exists
    THEN [w EXCEPT !.ret.raised = TRUE]
    ELSE [w EXCEPT
             !.messages[messageId] = [@ EXCEPT !.content = content,
                                               !.original = originalContent,
                                               !.translated = translatedContent],
             !.accessory[messageId].dirty = TRUE]

\* The call of updateMessage without the try block around it.
UpdateWithoutCatch(w, channelId, messageId, content, originalContent, translatedContent) ==
    [updateMessage(w, channelId, messageId, content, originalContent, translatedContent)
        EXCEPT !.ret.updates = Append(@, [messageId |-> messageId, content |-> content])]

\* try { updateMessage(...) } catch { }
safeUpdateMessage(w, channelId, messageId, content, originalContent, translatedContent) ==
    [updateMessage(w, channelId, messageId, content, originalContent, translatedContent)
        EXCEPT !.ret.raised = FALSE,
               !.ret.updates = Append(@, [messageId |-> messageId, content |-> content])]

clearPendingMessageMutations(w) ==
    [w EXCEPT !.pendingMessageMutations = <<>>, !.mutationFlushTimer = 0]

\* The queued run closures are discarded with the queue: their promises
\* never settle, and the model forgets them.
clearTranslationCaches(w) ==
    clearPendingMessageMutations(
        [w EXCEPT
            !.translationCache = <<>>,
            !.inFlightRequests = <<>>,
            !.requestQueue = <<>>,
            !.activeRequests = 0,
            !.requests = [x \in {y \in DOMAIN @ : @[y].phase # "queued"} |-> @[x]],
            !.ret.dropped = {y \in DOMAIN w.requests : w.requests[y].phase = "queued"}])

\* The for loop of invalidateAllTranslations; an exception leaves it.
RECURSIVE RestoreTracked(_, _)
RestoreTracked(w, tracked) ==
    IF Len(tracked) = 0 THEN w
    ELSE LET next(w1) ==
                 IF w1.ret.raised THEN w1 ELSE RestoreTracked(w1, Tail(tracked))
         IN  Then(safeUpdateMessage(w, Head(tracked).v.channelId, Head(tracked).k,
                      Head(tracked).v.originalContent,
                      Head(tracked).v.originalContent,
                      Head(tracked).v.translatedContent),
                  next)

\* invalidateAllTranslations without its loop over translatedMessageState.
ClearCachesOnly(w) == clearTranslationCaches(w)

invalidateAllTranslations(w) ==
    LET clear(w1) ==
            IF w1.ret.raised THEN w1
            ELSE [w1 EXCEPT !.translatedMessageState = <<>>]
    IN  Then(RestoreTracked(clearTranslationCaches(w), w.translatedMessageState),
             clear)

(***************************************************************************)
(* The mutation batcher, the scroll tracker and the accessory's write-back *)
(* effect.                                                                 *)
(***************************************************************************)
\* MESSAGE_MUTATION_FLUSH_BATCH_SIZE, scaled down from the program's 6 so
\* that a flush leaves entries behind with the model's messages.
MESSAGE_MUTATION_FLUSH_BATCH_SIZE == 1

MESSAGE_MUTATION_FLUSH_DELAY_MS == 24

scheduleMessageMutationFlush(w, delay) ==
    IF w.mutationFlushTimer # 0 THEN w ELSE [w EXCEPT !.mutationFlushTimer = delay]

\* The for loop of flushPendingMessageMutations, in the Map's order; an
\* exception leaves it.
RECURSIVE applyPendingMutations(_, _)
applyPendingMutations(w, processed) ==
    IF Len(w.pendingMessageMutations) = 0 THEN w
    ELSE LET entry == Head(w.pendingMessageMutations)
             next(w1) ==
                 IF w1.ret.raised THEN w1
                 ELSE IF processed + 1 >= MESSAGE_MUTATION_FLUSH_BATCH_SIZE
                 THEN w1
                 ELSE applyPendingMutations(w1, processed + 1)
         IN  Then(safeUpdateMessage(
                      [w EXCEPT !.pendingMessageMutations = Tail(@)],
                      entry.v.channelId, entry.k, entry.v.content,
                      entry.v.originalContent, entry.v.translatedContent),
                  next)

FlushOneBatchOnly(w) == applyPendingMutations(w, 0)

\* flushPendingMessageMutations when the user is not scrolling.
flushBatch(w) ==
    LET reschedule(w1) ==
            IF w1.ret.raised THEN w1
            ELSE IF Len(w1.pendingMessageMutations) > 0
            THEN scheduleMessageMutationFlush(w1, MESSAGE_MUTATION_FLUSH_DELAY_MS)
            ELSE w1
    IN  Then(applyPendingMutations(w, 0), reschedule)

FlushIgnoringScroll(w) == flushBatch(w)

\* The flush returning while the user scrolls without setting the timer
\* again.
FlushGivesUpWhileScrolling(w) ==
    IF w.isScrollActive THEN w ELSE flushBatch(w)

flushPendingMessageMutations(w) ==
    IF w.isScrollActive
    THEN scheduleMessageMutationFlush(w, 150)
    ELSE flushBatch(w)

\* What a call of enqueueMessageMutation leaves in ret.enqueued: its
\* arguments, and whether the Map held another mutation for the message.
Enqueued(w, messageId, mutation) ==
    [messageId |-> messageId, mutation |-> mutation,
     replaced  |-> /\ MapHas(w.pendingMessageMutations, messageId)
                   /\ MapGet(w.pendingMessageMutations, messageId) # mutation]

\* pendingMessageMutations as a list to which every call adds an item.
EnqueueAppends(w, messageId, mutation) ==
    scheduleMessageMutationFlush(
        [w EXCEPT !.pendingMessageMutations =
                      Append(@, [k |-> messageId, v |-> mutation]),
                  !.ret.enqueued = Append(@, Enqueued(w, messageId, mutation))],
        MESSAGE_MUTATION_FLUSH_DELAY_MS)

enqueueMessageMutation(w, messageId, mutation) ==
    IF /\ MapHas(w.pendingMessageMutations, messageId)
       /\ MapGet(w.pendingMessageMutations, messageId) = mutation
    THEN [w EXCEPT !.ret.enqueued = Append(@, Enqueued(w, messageId, mutation))]
    ELSE scheduleMessageMutationFlush(
             [w EXCEPT !.pendingMessageMutations = MapSet(@, messageId, mutation),
                       !.ret.enqueued = Append(@, Enqueued(w, messageId, mutation))],
             MESSAGE_MUTATION_FLUSH_DELAY_MS)

\* The subscribers are the accessories' setScrolling: each accessory
\* renders again later, with the value isScrollActive then has.
setScrollActive(w, active) ==
    IF w.isScrollActive = active THEN w
    ELSE LET w1 == [w EXCEPT !.isScrollActive = active]
         IN  IF ~active /\ Len(w1.pendingMessageMutations) > 0
             THEN scheduleMessageMutationFlush(w1, 20)
             ELSE w1

markScrollActivity(w) ==
    [setScrollActive(w, TRUE) EXCEPT !.scrollIdleTimer = TRUE]

\* stop(): the listeners, the accessory and the visibility observer are
\* removed; of the module's state, the scroll-idle timer and the save timer
\* are cleared, the memory is written and the translations are invalidated.
stop(w) ==
    invalidateAllTranslations(
        persistMemoryNow(
            [setScrollActive([w EXCEPT !.scrollIdleTimer = FALSE], FALSE)
                EXCEPT !.persistMemoryTimer = FALSE]))

getOriginalMessageContent(w, messageId) ==
    LET message == w.messages[messageId]
        tracked == MapGet(w.translatedMessageState, messageId)
    IN  IF /\ MapHas(w.translatedMessageState, messageId)
           /\ \/ message.content = tracked.translatedContent
              \/ message.content = tracked.originalContent
        THEN tracked.originalContent
        ELSE IF /\ message.original # Undefined
                /\ message.translated # Undefined
                /\ Len(message.translated) > 0
                /\ message.content = message.translated
        THEN message.original
        ELSE message.content

\* /[\p{Letter}\p{Number}]/u on the model's alphabet: digits and letters.
IsLetterOrNumber(c) ==
    \/ c \in 48..57
    \/ c \in 65..90
    \/ c \in 97..122

shouldTranslateContent(content) ==
    /\ Len(Trim(content)) >= 2
    /\ \E i \in 1..Len(content) : IsLetterOrNumber(content[i])

\* The messages of the model are written by other users.
shouldTranslateMessage(w, messageId) ==
    LET sourceContent == getOriginalMessageContent(w, messageId)
    IN  /\ Len(Trim(sourceContent)) > 0
        /\ shouldTranslateContent(sourceContent)

restoreOriginalMessage(w, messageId, sourceContent) ==
    LET message == w.messages[messageId]
        hasTracked == MapHas(w.translatedMessageState, messageId)
        tracked == MapGet(w.translatedMessageState, messageId)
        originalContent ==
            IF hasTracked THEN tracked.originalContent ELSE sourceContent
        translatedContent ==
            IF hasTracked THEN tracked.translatedContent
            ELSE IF message.translated # Undefined THEN message.translated
            ELSE <<>>
    IN  IF /\ message.content = originalContent
           /\ ~MapHas(w.pendingMessageMutations, messageId)
        THEN w
        ELSE enqueueMessageMutation(w, messageId,
                 [channelId         |-> ChannelId,
                  content           |-> originalContent,
                  originalContent   |-> originalContent,
                  translatedContent |-> translatedContent])

applyTranslationToMessage(w, messageId, sourceContent, translatedText) ==
    LET message == w.messages[messageId]
    IN  IF message.content = translatedText /\ message.original = sourceContent
        THEN w
        ELSE enqueueMessageMutation(
                 [w EXCEPT !.translatedMessageState =
                     MapSet(@, messageId,
                         [channelId         |-> ChannelId,
                          originalContent   |-> sourceContent,
                          translatedContent |-> translatedText])],
                 messageId,
                 [channelId         |-> ChannelId,
                  content           |-> translatedText,
                  originalContent   |-> sourceContent,
                  translatedContent |-> translatedText])

\* getMessageNode finds the node of a message that is in the host's store.
replaceMessageWithTranslation(w, messageId, sourceContent, translatedText) ==
    IF w.isScrollActive THEN w
    ELSE IF ~w.messages[messageId].exists THEN w
    ELSE applyTranslationToMessage(w, messageId, sourceContent, translatedText)

\* The effect of LingoAccessory that writes the content of its message,
\* with the states the accessory was rendered with.
writeBackEffect(w, messageId) ==
    LET a == w.accessory[messageId]
        sourceContent == getOriginalMessageContent(w, messageId)
    IN  IF ~shouldTranslateMessage(w, messageId)
        THEN restoreOriginalMessage(w, messageId, sourceContent)
        ELSE IF a.showOriginal
        THEN restoreOriginalMessage(w, messageId, sourceContent)
        ELSE IF w.settings.onlyTranslateVisible /\ ~a.visible THEN w
        ELSE IF a.isScrolling THEN w
        ELSE IF a.translation.status = "ready" /\ ~a.showOriginal
        THEN replaceMessageWithTranslation(w, messageId, sourceContent,
                 a.translation.text)
        ELSE w

\* A render of the accessory of a message: it takes up the scroll state and
\* the message as they are, and its write-back effect runs.
render(w, messageId) ==
    writeBackEffect(
        [w EXCEPT !.accessory[messageId].isScrolling = w.isScrollActive,
                  !.accessory[messageId].dirty = FALSE],
        messageId)

(***************************************************************************)
(* The pipeline: requests, backend completions and settings changes.       *)
(***************************************************************************)
Init ==
    /\ settings \in {[BaseSettings EXCEPT !.maxConcurrentRequests = m] : m \in {1, 2}}
    /\ now = 0
    /\ translationCache = <<>>
    /\ inFlightRequests = <<>>
    /\ requestQueue = <<>>
    /\ activeRequests = 0
    /\ requests = <<>>
    /\ persistentTranslationMemory = <<>>
    /\ persistMemoryTimer = FALSE
    /\ persistMemoryTimerDue = 0
    /\ persistentCacheLoaded = TRUE
    /\ persistentCacheLoadPromise = FALSE
    /\ dataStore = EmptyDataStore
    /\ dataStoreReads = LoadKeys
    /\ pendingMessageMutations = <<>>
    /\ mutationFlushTimer = 0
    /\ isScrollActive = FALSE
    /\ scrollIdleTimer = FALSE
    /\ translatedMessageState = <<>>
    /\ messages = [m \in MessageIds |->
                      [exists |-> TRUE, content |-> <<104, 105>>,
                       original |-> Undefined, translated |-> Undefined]]
    /\ accessory = [m \in MessageIds |-> InitialAccessory]
    /\ ret = Observation("init")

\* A LingoAccessory asks for the translation of a message's source text
\* under the fingerprint of the current settings.
RequestTranslation ==
    \E messageId \in MessageIds, sourceContent \in PipeTexts :
        /\ persistentCacheLoaded
        /\ \E r \in RequestIds : r \notin DOMAIN requests
        /\ LET fp == getTranslatorConfigFingerprint(settings)
               w  == [Begin("requestTranslation") EXCEPT
                         !.ret.arg = getMessageCacheKey(messageId, sourceContent, fp)]
           IN  Becomes(requestTranslation(w, messageId, sourceContent, fp))

\* The Azure call of a running task answers.
AzureComplete ==
    \E r \in DOMAIN requests :
        /\ requests[r].phase = "azure"
        /\ \E response \in AzureResponses(requests[r].sourceContent,
                                          requests[r].targetLanguage) :
            LET answer == fetchAzureTranslation(requests[r].sourceContent,
                              requests[r].targetLanguage, response)
                w      == [Begin("complete") EXCEPT !.ret.req = r,
                                                       !.ret.path = "azure",
                                                       !.ret.answer = answer]
            IN  Becomes(
                    IF answer.ok
                    THEN settle(w, r, wrapReady(answer))
                    ELSE azureFailed(w, r, answer.message))

\* The Google call of a running task answers.
GoogleComplete ==
    \E r \in DOMAIN requests :
        /\ requests[r].phase = "google"
        /\ \E response \in GoogleResponses(requests[r].sourceContent,
                                           requests[r].targetLanguage) :
            LET answer == fetchGoogleTranslation(requests[r].sourceContent,
                              requests[r].targetLanguage, response)
                w      == [Begin("complete") EXCEPT !.ret.req = r,
                                                       !.ret.path = "google",
                                                       !.ret.answer = answer]
            IN  Becomes(googleAnswered(w, r, answer))

\* The user edits the target language: the setting's onChange handler is
\* invalidateAllTranslations.
ChangeTargetLanguage ==
    \E lang \in PipeTargetLanguages :
        /\ lang # settings.targetLanguage
        /\ Becomes(invalidateAllTranslations(
               [Begin("invalidate") EXCEPT !.settings.targetLanguage = lang]))

Next ==
    \/ RequestTranslation
    \/ AzureComplete
    \/ GoogleComplete
    \/ ChangeTargetLanguage

Spec == Init /\ [][Next]_vars
(***************************************************************************)
(* The persistent translation memory on its own: lookups, remembered       *)
(* translations and the passing of time.                                   *)
(***************************************************************************)
\* The clock runs to MaxClockDays days and MaxClockMs milliseconds.
MaxClockDays == 2

MaxClockMs == 1

\* "gwzx" and "16cd" have the same length and the same hashText digest
\* (6b3e8b99); " gwzx" normalises to "gwzx".
StoreTexts == {<<103, 119, 122, 120>>, <<49, 54, 99, 100>>,
               <<32, 103, 119, 122, 120>>}

InitStore ==
    /\ settings \in {[BaseSettings EXCEPT !.persistentCacheTtlDays = d] : d \in {1, 2}}
    /\ now = 0
    /\ translationCache = <<>>
    /\ inFlightRequests = <<>>
    /\ requestQueue = <<>>
    /\ activeRequests = 0
    /\ requests = <<>>
    /\ persistentTranslationMemory = <<>>
    /\ persistMemoryTimer = FALSE
    /\ persistMemoryTimerDue = 0
    /\ persistentCacheLoaded = TRUE
    /\ persistentCacheLoadPromise = FALSE
    /\ dataStore = EmptyDataStore
    /\ dataStoreReads = LoadKeys
    /\ pendingMessageMutations = <<>>
    /\ mutationFlushTimer = 0
    /\ isScrollActive = FALSE
    /\ scrollIdleTimer = FALSE
    /\ translatedMessageState = <<>>
    /\ messages = [m \in MessageIds |->
                      [exists |-> TRUE, content |-> <<104, 105>>,
                       original |-> Undefined, translated |-> Undefined]]
    /\ accessory = [m \in MessageIds |-> InitialAccessory]
    /\ ret = Observation("init")

\* tryGetPersistentTranslation(text, fingerprint of the current settings),
\* which requestTranslation calls once the memory is loaded.
StoreLookup ==
    \E text \in StoreTexts :
        /\ persistentCacheLoaded
        /\ LET w      == [Begin("lookup") EXCEPT !.ret.arg = text]
               lookup == tryGetPersistentTranslation(Store(w), text,
                             getTranslatorConfigFingerprint(settings), settings, now)
           IN  Becomes([WithStore(w, lookup.store) EXCEPT
                           !.ret.result = lookup.result,
                           !.ret.path = lookup.path])

\* rememberPersistentTranslation(text, fingerprint, the state a backend
\* produced for that text).
StoreRemember ==
    \E text \in StoreTexts :
        \E state \in { ReadyState(LangEn,
                           AzureTranslate(text, normalizeTargetLanguage(settings.targetLanguage))),
                       ErrorState(MsgTranslationUnavailable) } :
            LET w == [Begin("remember") EXCEPT !.ret.arg = text, !.ret.result = state]
            IN  Becomes(WithStore(w,
                    rememberPersistentTranslation(Store(w), text,
                        getTranslatorConfigFingerprint(settings), state, settings, now)))

\* Time passes: a millisecond or a day.
Tick ==
    \E d \in {1, DAY_MS} :
        /\ d = 1 => (now % DAY_MS) < MaxClockMs
        /\ d = DAY_MS => (now \div DAY_MS) < MaxClockDays
        /\ Becomes([Begin("tick") EXCEPT !.now = now + d])

NextStore ==
    \/ StoreLookup
    \/ StoreRemember
    \/ Tick

SpecStore == InitStore /\ [][NextStore]_vars

(***************************************************************************)
(* The persistent translation memory under a small                         *)
(* persistentCacheMaxEntries, and under edits of the settings that enter   *)
(* the fingerprint.                                                        *)
(***************************************************************************)
\* "a b", " a \t b " (the same text after normalisation), "hi" and "yo".
MemoryTexts == {<<97, 32, 98>>, <<32, 97, 32, 9, 32, 98, 32>>,
                <<104, 105>>, <<121, 111>>}

\* "sv", "SV " (the same language after normalisation) and "de".
MemoryTargetLanguages == {<<115, 118>>, <<83, 86, 32>>, <<100, 101>>}

MemoryBackends == {AzureOnly, GoogleOnly}

\* settings.store.persistentCacheMaxEntries, scaled down from the slider's
\* 100..5000 so that the memory overflows within the model's texts.
MemoryMaxEntries == 2

\* The same for the memory under settings edits.
ConfigMaxEntries == 1

\* The program after start with the persistent memory loaded and empty,
\* under the settings s.
Started(s) ==
    /\ settings = s
    /\ now = 0
    /\ translationCache = <<>>
    /\ inFlightRequests = <<>>
    /\ requestQueue = <<>>
    /\ activeRequests = 0
    /\ requests = <<>>
    /\ persistentTranslationMemory = <<>>
    /\ persistMemoryTimer = FALSE
    /\ persistMemoryTimerDue = 0
    /\ persistentCacheLoaded = TRUE
    /\ persistentCacheLoadPromise = FALSE
    /\ dataStore = EmptyDataStore
    /\ dataStoreReads = LoadKeys
    /\ pendingMessageMutations = <<>>
    /\ mutationFlushTimer = 0
    /\ isScrollActive = FALSE
    /\ scrollIdleTimer = FALSE
    /\ translatedMessageState = <<>>
    /\ messages = [m \in MessageIds |->
                      [exists |-> TRUE, content |-> <<104, 105>>,
                       original |-> Undefined, translated |-> Undefined]]
    /\ accessory = [m \in MessageIds |-> InitialAccessory]
    /\ ret = Observation("init")

\* The user has chosen the azure-only backend and a low
\* persistentCacheMaxEntries.
InitMemory ==
    Started([BaseSettings EXCEPT !.translationBackend = AzureOnly,
                                 !.persistentCacheMaxEntries = MemoryMaxEntries])

InitConfig ==
    Started([BaseSettings EXCEPT !.translationBackend = AzureOnly,
                                 !.persistentCacheMaxEntries = ConfigMaxEntries])

\* What the backend of the current settings answers for a text.
BackendTranslation(text, s) ==
    IF s.translationBackend = GoogleOnly
    THEN GoogleTranslate(text, normalizeTargetLanguage(s.targetLanguage))
    ELSE AzureTranslate(text, normalizeTargetLanguage(s.targetLanguage))

MemoryLookup ==
    \E text \in MemoryTexts :
        /\ persistentCacheLoaded
        /\ LET w      == [Begin("lookup") EXCEPT !.ret.arg = text]
               lookup == tryGetPersistentTranslation(Store(w), text,
                             getTranslatorConfigFingerprint(settings), settings, now)
           IN  Becomes([WithStore(w, lookup.store) EXCEPT
                           !.ret.result = lookup.result,
                           !.ret.path = lookup.path])

\* rememberPersistentTranslation(text, fingerprint, the ready state the
\* backend produced).  The observation keeps the entries that left the Map.
MemoryRemember ==
    \E text \in MemoryTexts :
        /\ persistentCacheLoaded
        /\ LET state == ReadyState(LangEn, BackendTranslation(text, settings))
               w     == [Begin("remember") EXCEPT !.ret.arg = text, !.ret.result = state]
               store == rememberPersistentTranslation(Store(w), text,
                            getTranslatorConfigFingerprint(settings), state, settings, now)
               gone  == {persistentTranslationMemory[i] :
                            i \in 1..Len(persistentTranslationMemory)}
                        \ {store.mem[i] : i \in 1..Len(store.mem)}
           IN  Becomes([WithStore(w, store) EXCEPT !.ret.dropped = gone])

\* The user edits the target language or the backend: the onChange handler
\* of both settings is invalidateAllTranslations.  The observation keeps the
\* fingerprint of the settings before the edit.
ChangeLanguageOrBackend ==
    \E lang \in MemoryTargetLanguages, backend \in MemoryBackends :
        /\ (lang # settings.targetLanguage) # (backend # settings.translationBackend)
        /\ Becomes(invalidateAllTranslations(
               [Begin("invalidate") EXCEPT
                   !.settings.targetLanguage = lang,
                   !.settings.translationBackend = backend,
                   !.ret.arg = getTranslatorConfigFingerprint(settings)]))

\* A day passes.
DayPasses ==
    /\ (now \div DAY_MS) < MaxClockDays
    /\ Becomes([Begin("tick") EXCEPT !.now = now + DAY_MS])

\* Capacity pressure: texts are remembered and looked up while days pass.
NextMemory ==
    \/ MemoryLookup
    \/ MemoryRemember
    \/ DayPasses

SpecMemory == InitMemory /\ [][NextMemory]_vars

\* Settings edits: texts are remembered and looked up between edits of the
\* target language and the backend, at one instant.
NextConfig ==
    \/ MemoryLookup
    \/ MemoryRemember
    \/ ChangeLanguageOrBackend

SpecConfig == InitConfig /\ [][NextConfig]_vars

(***************************************************************************)
(* The persistent memory and its durable copy: texts are remembered and    *)
(* looked up while days pass, the save timer fires, and the plugin is      *)
(* stopped.                                                                *)
(***************************************************************************)
\* The callback of the save timer; a timer does not fire before it is due.
SaveTimerFires ==
    /\ persistMemoryTimer
    /\ now >= persistMemoryTimerDue
    /\ Becomes(persistMemoryNow(
           [Begin("save") EXCEPT !.persistMemoryTimer = FALSE]))

\* The user switches the plugin off.
Stop ==
    /\ persistentCacheLoaded
    /\ Becomes(stop(Begin("stop")))

\* "hi" and "yo".
DurableTexts == {<<104, 105>>, <<121, 111>>}

\* tryGetPersistentTranslation(text, fingerprint of the current settings).
DurableLookup ==
    \E text \in DurableTexts :
        /\ persistentCacheLoaded
        /\ LET w      == [Begin("lookup") EXCEPT !.ret.arg = text]
               lookup == tryGetPersistentTranslation(Store(w), text,
                             getTranslatorConfigFingerprint(settings), settings, now)
           IN  Becomes([WithStore(w, lookup.store) EXCEPT
                           !.ret.result = lookup.result,
                           !.ret.path = lookup.path])

\* rememberPersistentTranslation(text, fingerprint, the ready state the
\* backend produced).
DurableRemember ==
    \E text \in DurableTexts :
        /\ persistentCacheLoaded
        /\ LET state == ReadyState(LangEn, BackendTranslation(text, settings))
               w     == [Begin("remember") EXCEPT !.ret.arg = text, !.ret.result = state]
           IN  Becomes(WithStore(w,
                   rememberPersistentTranslation(Store(w), text,
                       getTranslatorConfigFingerprint(settings), state, settings, now)))

NextStop ==
    \/ DurableLookup
    \/ DurableRemember
    \/ DayPasses
    \/ SaveTimerFires
    \/ Stop

SpecStop == Started(BaseSettings) /\ [][NextStop]_vars

(***************************************************************************)
(* The write-back of translations on its own: translations arrive for the  *)
(* accessories of messages that are on screen, the user toggles and        *)
(* scrolls, timers fire, and a setting is edited.                          *)
(***************************************************************************)
\* Azure keys a settings change may set: "k" and "K" (the fingerprint says
\* "with-key" for both).
MutAzureApiKeys == {<<107>>, <<75>>}

InitMut ==
    /\ settings = BaseSettings
    /\ now = 0
    /\ translationCache = <<>>
    /\ inFlightRequests = <<>>
    /\ requestQueue = <<>>
    /\ activeRequests = 0
    /\ requests = <<>>
    /\ persistentTranslationMemory = <<>>
    /\ persistMemoryTimer = FALSE
    /\ persistMemoryTimerDue = 0
    /\ persistentCacheLoaded = TRUE
    /\ persistentCacheLoadPromise = FALSE
    /\ dataStore = EmptyDataStore
    /\ dataStoreReads = LoadKeys
    /\ pendingMessageMutations = <<>>
    /\ mutationFlushTimer = 0
    /\ isScrollActive = FALSE
    /\ scrollIdleTimer = FALSE
    /\ translatedMessageState = <<>>
    /\ messages = [m \in MessageIds |->
                      [exists |-> TRUE, content |-> <<104, 105>>,
                       original |-> Undefined, translated |-> Undefined]]
    /\ accessory = [m \in MessageIds |-> InitialAccessory]
    /\ ret = Observation("init")

\* requestTranslation resolves for an accessory: setTranslation(result),
\* and the accessory renders.
TranslationArrives ==
    \E messageId \in MessageIds :
        /\ accessory[messageId].translation.status = "idle"
        /\ LET w == [Begin("translation") EXCEPT
                        !.accessory[messageId].translation =
                            ReadyState(LangEn,
                                AzureTranslate(
                                    getOriginalMessageContent(World, messageId),
                                    normalizeTargetLanguage(settings.targetLanguage)))]
           IN  Becomes(render(w, messageId))

\* The user clicks the toggle of a translated message: onToggleOriginal,
\* and the accessory renders.
ToggleOriginal ==
    \E messageId \in MessageIds :
        /\ accessory[messageId].translation.status = "ready"
        /\ LET w == [Begin("toggle") EXCEPT
                        !.ret.arg = messageId,
                        !.accessory[messageId].showOriginal = ~@]
           IN  Becomes(render(w, messageId))

\* An accessory renders again because its message was updated or the
\* scroll state it subscribes to changed.
Render ==
    \E messageId \in MessageIds :
        /\ \/ accessory[messageId].dirty
           \/ accessory[messageId].isScrolling # isScrollActive
        /\ Becomes(render(Begin("render"), messageId))

SCROLLING_KEYS ==
    {"ArrowUp", "ArrowDown", "PageUp", "PageDown", "Home", "End", "Space"}

\* The events the window handlers of start() see.
WindowEvents ==
    {[type |-> "wheel", key |-> ""], [type |-> "touchmove", key |-> ""],
     [type |-> "keydown", key |-> "PageDown"], [type |-> "keydown", key |-> "Enter"]}

\* A wheel or touch-move event, or the keydown of a scrolling key.
ScrollSignal ==
    \E event \in WindowEvents :
        /\ event.type = "keydown" => event.key \in SCROLLING_KEYS
        /\ Becomes(markScrollActivity(Begin("scroll")))

\* The callback of the scroll-idle timer.
ScrollIdleTimerFires ==
    /\ scrollIdleTimer
    /\ Becomes(setScrollActive(
           [Begin("scrollIdle") EXCEPT !.scrollIdleTimer = FALSE], FALSE))

\* The callback of the mutation flush timer.
FlushTimerFires ==
    /\ mutationFlushTimer # 0
    /\ Becomes(flushPendingMessageMutations(
           [Begin("flush") EXCEPT !.mutationFlushTimer = 0]))

\* The user edits the Azure key: the setting's onChange handler is
\* invalidateAllTranslations.
ChangeAzureApiKey ==
    \E key \in MutAzureApiKeys :
        /\ key # settings.azureApiKey
        /\ Becomes(invalidateAllTranslations(
               [Begin("invalidate") EXCEPT !.settings.azureApiKey = key]))

NextMut ==
    \/ TranslationArrives
    \/ ToggleOriginal
    \/ Render
    \/ ScrollSignal
    \/ ScrollIdleTimerFires
    \/ FlushTimerFires
    \/ ChangeAzureApiKey

SpecMut == InitMut /\ [][NextMut]_vars

\* A timer that is set fires: the callback of the flush timer runs if it
\* stays due.
SpecMutFair == SpecMut /\ WF_vars(FlushTimerFires)

(***************************************************************************)
(* The settings panel on its own: the user edits the five settings that    *)
(* enter the fingerprint.  Every one of them has invalidateAllTranslations *)
(* as its onChange handler.                                                *)
(***************************************************************************)
\* Endpoints the user may type: "e", "e/" (the same endpoint after
\* normalisation) and "e|x".
PanelEndpoints == {<<101>>, <<101, 47>>, <<101, 124, 120>>}

\* Regions the user may type: "", "X" and "x|".
PanelRegions == {<<>>, <<88>>, <<120, 124>>}

\* Keys the user may type: none, "k" and "K".
PanelAzureApiKeys == {<<>>} \cup MutAzureApiKeys

PanelBackends == {AzureGoogleFallback, AzureOnly, GoogleOnly}

\* Every settings snapshot the panel can produce.
PanelSettings ==
    {[BaseSettings EXCEPT !.targetLanguage = lang, !.translationBackend = backend,
                          !.azureEndpoint = endpoint, !.azureRegion = region,
                          !.azureApiKey = key] :
        lang \in PipeTargetLanguages, backend \in PanelBackends,
        endpoint \in PanelEndpoints, region \in PanelRegions,
        key \in PanelAzureApiKeys}

InitPanel == Started(BaseSettings)

EditTranslationBackend ==
    \E backend \in PanelBackends :
        /\ backend # settings.translationBackend
        /\ Becomes(invalidateAllTranslations(
               [Begin("invalidate") EXCEPT !.settings.translationBackend = backend]))

EditAzureApiKey ==
    \E key \in PanelAzureApiKeys :
        /\ key # settings.azureApiKey
        /\ Becomes(invalidateAllTranslations(
               [Begin("invalidate") EXCEPT !.settings.azureApiKey = key]))

EditAzureRegion ==
    \E region \in PanelRegions :
        /\ region # settings.azureRegion
        /\ Becomes(invalidateAllTranslations(
               [Begin("invalidate") EXCEPT !.settings.azureRegion = region]))

EditAzureEndpoint ==
    \E endpoint \in PanelEndpoints :
        /\ endpoint # settings.azureEndpoint
        /\ Becomes(invalidateAllTranslations(
               [Begin("invalidate") EXCEPT !.settings.azureEndpoint = endpoint]))

NextPanel ==
    \/ ChangeTargetLanguage
    \/ EditTranslationBackend
    \/ EditAzureApiKey
    \/ EditAzureRegion
    \/ EditAzureEndpoint

SpecPanel == InitPanel /\ [][NextPanel]_vars

(***************************************************************************)
(* The backend resolver under every backend mode, with and without an      *)
(* Azure key: requests are made and the backends answer.                   *)
(***************************************************************************)
\* Keys in the settings: none, " " and "k".
ResolverAzureApiKeys == {<<>>, <<32>>, <<107>>}

ResolverSettings ==
    {[BaseSettings EXCEPT !.translationBackend = backend, !.azureApiKey = key,
                          !.maxConcurrentRequests = m] :
        backend \in PanelBackends, key \in ResolverAzureApiKeys, m \in {1, 2}}

InitResolver == \E s \in ResolverSettings : Started(s)

NextResolver ==
    \/ RequestTranslation
    \/ AzureComplete
    \/ GoogleComplete

SpecResolver == InitResolver /\ [][NextResolver]_vars

(***************************************************************************)
(* The volatile cache under more keys than it holds: two texts are         *)
(* requested for two messages, Google answers, and the target language is  *)
(* edited.                                                                 *)
(***************************************************************************)
\* "hi" and "yo".
CacheTexts == {<<104, 105>>, <<121, 111>>}

\* The number of requestTranslation promises alive at once in this
\* specification.
CacheMaxRequests == 2

\* The user has chosen the google-only backend and switched the persistent
\* memory off.
InitCache ==
    Started([BaseSettings EXCEPT !.translationBackend = GoogleOnly,
                                 !.persistentCacheEnabled = FALSE])

CacheRequest ==
    \E messageId \in MessageIds, sourceContent \in CacheTexts :
        /\ persistentCacheLoaded
        /\ Cardinality(DOMAIN requests) < CacheMaxRequests
        /\ LET fp == getTranslatorConfigFingerprint(settings)
               w  == [Begin("requestTranslation") EXCEPT
                         !.ret.arg = getMessageCacheKey(messageId, sourceContent, fp)]
           IN  Becomes(requestTranslation(w, messageId, sourceContent, fp))

\* The user retypes the target language as "SV ": the same language after
\* normalisation, so the keys of the cache stay the same.
CacheEditTargetLanguage ==
    \E lang \in {<<83, 86, 32>>} :
        /\ lang # settings.targetLanguage
        /\ Becomes(invalidateAllTranslations(
               [Begin("invalidate") EXCEPT !.settings.targetLanguage = lang]))

NextCache ==
    \/ CacheRequest
    \/ GoogleComplete
    \/ CacheEditTargetLanguage

SpecCache == InitCache /\ [][NextCache]_vars

(***************************************************************************)
(* The load of the persistent memory: the plugin starts on a DataStore     *)
(* that earlier runs (of this plugin and of its earlier names) left, the   *)
(* reads answer or fail, and texts are looked up once the load is over.    *)
(***************************************************************************)
\* The entry remembered for a text under the settings s, with the
\* translation `translated`, at time 0.
StoredItem(text, s, translated) ==
    [iterable |-> TRUE,
     k |-> makePersistentMemoryKey(text, getTranslatorConfigFingerprint(s)),
     v |-> [normalizedSource |-> normalizeTextForMemory(text),
            translatedText   |-> translated,
            sourceLanguage   |-> LangEn,
            cachedAt         |-> 0,
            lastUsedAt       |-> 0]]

\* An array item that is no pair (null): destructuring it throws.
NullItem ==
    [iterable |-> FALSE, k |-> <<>>,
     v |-> [normalizedSource |-> <<>>, translatedText |-> <<>>,
            sourceLanguage |-> <<>>, cachedAt |-> 0, lastUsedAt |-> 0]]

\* What a key may hold: nothing, a value that is no array, an empty array,
\* the entry of "hi", an entry of "yo" without its translatedText, the
\* entry of "hi" followed by a null, and the entry of "hi" followed by the
\* malformed entry.  The translation of "hi" names the key it is under.
LoadValues(i) ==
    LET hi  == StoredItem(<<104, 105>>, BaseSettings, <<48 + i, 58, 104, 105>>)
        bad == StoredItem(<<121, 111>>, BaseSettings, <<>>)
    IN  { StoredUndefined, StoredObject, StoredArray(<<>>),
          StoredArray(<<hi>>), StoredArray(<<bad>>),
          StoredArray(<<hi, NullItem>>), StoredArray(<<hi, bad>>) }

LoadStores ==
    {[key \in DataStoreKeys |->
         IF key = LoadKeys[1] THEN v1 ELSE IF key = LoadKeys[2] THEN v2 ELSE v3] :
        v1 \in LoadValues(1), v2 \in LoadValues(2), v3 \in LoadValues(3)}

\* The module as it is loaded: nothing is read yet.
InitLoad ==
    /\ settings = BaseSettings
    /\ now = 0
    /\ translationCache = <<>>
    /\ inFlightRequests = <<>>
    /\ requestQueue = <<>>
    /\ activeRequests = 0
    /\ requests = <<>>
    /\ persistentTranslationMemory = <<>>
    /\ persistMemoryTimer = FALSE
    /\ persistMemoryTimerDue = 0
    /\ persistentCacheLoaded = FALSE
    /\ persistentCacheLoadPromise = FALSE
    /\ dataStore \in LoadStores
    /\ dataStoreReads = <<>>
    /\ pendingMessageMutations = <<>>
    /\ mutationFlushTimer = 0
    /\ isScrollActive = FALSE
    /\ scrollIdleTimer = FALSE
    /\ translatedMessageState = <<>>
    /\ messages = [m \in MessageIds |->
                      [exists |-> TRUE, content |-> <<104, 105>>,
                       original |-> Undefined, translated |-> Undefined]]
    /\ accessory = [m \in MessageIds |-> InitialAccessory]
    /\ ret = Observation("init")

\* ensurePersistentMemoryLoaded is called: by start(), or by the
\* tryGetPersistentTranslation of a request.
LoadCall ==
    \E caller \in {"start", "tryGetPersistentTranslation"} :
        /\ caller = "start" => ret.op = "init"
        /\ Becomes(ensurePersistentMemoryLoaded(
               [Begin("ensureLoaded") EXCEPT !.ret.arg = caller]))

\* The DataStore.get the load awaits is rejected (the storage is
\* unavailable) or resolves with what the key holds.
DataStoreGetSettles ==
    \E rejected \in BOOLEAN :
        /\ persistentCacheLoadPromise
        /\ Becomes(loadResumes(
               [Begin("loadRead") EXCEPT
                   !.ret.arg = dataStoreReads[Len(dataStoreReads)]],
               rejected, dataStore[dataStoreReads[Len(dataStoreReads)]]))

\* tryGetPersistentTranslation(text, fingerprint of the current settings)
\* once the load it awaited is over.
LoadLookup ==
    \E text \in CacheTexts :
        /\ persistentCacheLoaded
        /\ LET w      == [Begin("lookup") EXCEPT !.ret.arg = text]
               lookup == tryGetPersistentTranslation(Store(w), text,
                             getTranslatorConfigFingerprint(settings), settings, now)
           IN  Becomes([WithStore(w, lookup.store) EXCEPT
                           !.ret.result = lookup.result,
                           !.ret.path = lookup.path])

NextLoad ==
    \/ LoadCall
    \/ DataStoreGetSettles
    \/ LoadLookup

SpecLoad == InitLoad /\ [][NextLoad]_vars

(***************************************************************************)
(* A session up to its first settings edit: requests are made and          *)
(* answered, translations reach the accessories and are flushed, and then  *)
(* the user edits one of the five settings of the fingerprint.             *)
(***************************************************************************)
\* The settings before the edit: one request runs at a time.
SessionSettings == [BaseSettings EXCEPT !.maxConcurrentRequests = 1]

InitSession == Started(SessionSettings)

\* The number of requestTranslation promises alive at once in the session.
SessionMaxRequests == 2

SessionRequest ==
    \E messageId \in MessageIds, sourceContent \in PipeTexts :
        /\ persistentCacheLoaded
        /\ Cardinality(DOMAIN requests) < SessionMaxRequests
        /\ LET fp == getTranslatorConfigFingerprint(settings)
               w  == [Begin("requestTranslation") EXCEPT
                         !.ret.arg = getMessageCacheKey(messageId, sourceContent, fp)]
           IN  Becomes(requestTranslation(w, messageId, sourceContent, fp))

\* The first edit of the session.
EditOneSetting ==
    /\ settings = SessionSettings
    /\ \/ ChangeTargetLanguage
       \/ EditTranslationBackend
       \/ EditAzureApiKey
       \/ EditAzureRegion
       \/ EditAzureEndpoint

\* What happens while the settings are as the session began with them.
BeforeTheEdit ==
    /\ settings = SessionSettings
    /\ \/ SessionRequest
       \/ AzureComplete
       \/ GoogleComplete
       \/ TranslationArrives
       \/ FlushTimerFires

NextSession ==
    \/ BeforeTheEdit
    \/ EditOneSetting

SpecSession == InitSession /\ [][NextSession]_vars

(***************************************************************************)
(* Properties of the pipeline.                                             *)
(***************************************************************************)
\* The requests whose backend call (Azure or Google) is outstanding.
Outstanding == {r \in DOMAIN requests : requests[r].phase \in {"azure", "google"}}

Range(q) == {q[i] : i \in 1..Len(q)}

EffectiveMax ==
    IF settings.maxConcurrentRequests < 1 THEN 1 ELSE settings.maxConcurrentRequests

\* C1: for every volatile key (messageId, text, fingerprint) at most one
\* backend call is outstanding, and the callers of a key that is in flight
\* hold one and the same pending request (so they receive the same result):
\* no two pending requests share a key.
C1_OneRequestPerVolatileKey ==
    \A r1, r2 \in DOMAIN requests :
        RequestKey(requests[r1]) = RequestKey(requests[r2]) => r1 = r2

\* C2 as stated: at most one backend call is outstanding for each
\* (source text, fingerprint) pair, whatever the message ids.
C2_OneCallPerTextAndFingerprint ==
    \A r1, r2 \in Outstanding :
        (/\ requests[r1].sourceContent = requests[r2].sourceContent
         /\ requests[r1].fp = requests[r2].fp) => r1 = r2

\* C2 as amended: the in-flight registry is keyed by (messageId, source
\* text, fingerprint).  A requestTranslation call for a key that is
\* registered starts no backend call and creates no request: unless the
\* key is cached, it returns the registered request.
C2_RegisteredKeyStartsNoCall ==
    [][(ret'.op = "requestTranslation" /\ MapHas(inFlightRequests, ret'.arg))
        => /\ ret'.started = {}
           /\ requests' = requests
           /\ inFlightRequests' = inFlightRequests
           /\ \/ MapHas(translationCache, ret'.arg)
              \/ ret'.req = MapGet(inFlightRequests, ret'.arg)]_vars

\* C2's case: the same text is in flight for two different messages, and a
\* further request for one of them has just been answered with the
\* registered request instead of a new backend call.
C2_Witness ==
    /\ ret.op = "requestTranslation"
    /\ MapHas(inFlightRequests, ret.arg)
    /\ ret.req = MapGet(inFlightRequests, ret.arg)
    /\ ret.req \in Outstanding
    /\ ret.started = {}
    /\ \E r \in Outstanding :
        /\ r # ret.req
        /\ requests[r].sourceContent = requests[ret.req].sourceContent
        /\ requests[r].fp = requests[ret.req].fp
        /\ requests[r].messageId # requests[ret.req].messageId

\* C3: the number of backend tasks started and not yet completed is at most
\* max(1, maxConcurrentRequests).
C3_RunningWithinLimit == Cardinality(Outstanding) <= EffectiveMax

\* C4: no step removes a task from the scheduler queue without starting it.
C4_QueuedTasksAreStarted ==
    [][\A r \in Range(requestQueue) :
          r \in Range(requestQueue') \/ r \in ret'.started]_vars

\* C5: a task submitted while fewer than M tasks are running starts at
\* once; one submitted while M are running is appended to the queue; a
\* queued task starts only in a step that completes a running task, and it
\* is the head of the queue.
C5_AdmissionControl ==
    [][/\ \A r \in (DOMAIN requests') \ (DOMAIN requests) :
            /\ Cardinality(Outstanding) < EffectiveMax => r \in ret'.started
            /\ Cardinality(Outstanding) >= EffectiveMax =>
                   requestQueue' = Append(requestQueue, r)
       /\ \A r \in Range(requestQueue) :
            r \in ret'.started =>
                /\ ret'.op = "complete"
                /\ ret'.req \in Outstanding
                /\ ret'.req \notin DOMAIN requests'
                /\ r = Head(requestQueue)]_vars

(***************************************************************************)
(* Properties of the mutation batcher.                                     *)
(***************************************************************************)
UpdatedMessages == {ret.updates[i].messageId : i \in 1..Len(ret.updates)}

\* C6: a run of flushPendingMessageMutations while isScrollActive is true
\* makes no updateMessage call, leaves pendingMessageMutations and the
\* messages unchanged, and only reschedules itself, 150 ms later.
C6_FlushWhileScrollingAppliesNothing ==
    [][(ret'.op = "flush" /\ isScrollActive)
        => /\ pendingMessageMutations' = pendingMessageMutations
           /\ messages' = messages
           /\ ret'.updates = <<>>
           /\ mutationFlushTimer' = 150]_vars

\* A flush has just run while the user was scrolling, with mutations pending.
C6_Witness ==
    /\ ret.op = "flush"
    /\ isScrollActive
    /\ Len(pendingMessageMutations) > 0
    /\ ret.updates = <<>>
    /\ mutationFlushTimer = 150

\* The content the user's toggle chose for a message: its original or its
\* translation.
ChosenContent(m) ==
    IF accessory[m].showOriginal
    THEN getOriginalMessageContent(World, m)
    ELSE accessory[m].translation.text

\* C7: a manual toggle made while isScrollActive is true is applied without
\* waiting for the scroll activity to end: when the flush timer fires right
\* after the toggle, during the scroll activity, the message has the content
\* the user chose.
C7_ManualToggleAppliedWhileScrolling ==
    [][(ret.op = "toggle" /\ isScrollActive /\ ret'.op = "flush")
        => messages'[ret.arg].content = ChosenContent(ret.arg)]_vars

\* C8: a mutation that is pending with isScrollActive false is eventually
\* applied through updateMessage by a flush, unless scroll activity or an
\* invalidation occurs first.
C8_PendingMutationsAreApplied ==
    \A m \in MessageIds :
        (MapHas(pendingMessageMutations, m) /\ ~isScrollActive)
            ~> \/ (ret.op = "flush" /\ m \in UpdatedMessages)
               \/ isScrollActive
               \/ ret.op = "invalidate"

\* The scroll activity has ended (an accessory still holds the isScrolling
\* it rendered with), and a flush has applied a batch, left a mutation
\* behind and rescheduled itself.
C8_Witness ==
    /\ ret.op = "flush"
    /\ ~isScrollActive
    /\ ~scrollIdleTimer
    /\ \E m \in MessageIds : accessory[m].isScrolling
    /\ Len(ret.updates) > 0
    /\ Len(pendingMessageMutations) > 0
    /\ mutationFlushTimer = MESSAGE_MUTATION_FLUSH_DELAY_MS

(***************************************************************************)
(* Properties of the persistent translation memory.                        *)
(***************************************************************************)
CurrentFingerprint == getTranslatorConfigFingerprint(settings)

\* The entry is older than ttlDays * 86400000 ms at the current time.
OlderThanTtl(entry) ==
    now - entry.cachedAt > settings.persistentCacheTtlDays * DAY_MS

\* C9: a lookup never returns a ready state built from an entry whose
\* cachedAt is older than ttlDays * 86400000 ms, and a lookup that finds
\* such an entry for its text deletes it from the persistent map.
C9_ExpiredEntriesAreNotReturned ==
    [][ret'.op = "lookup" =>
          LET key == makePersistentMemoryKey(ret'.arg, CurrentFingerprint)
          IN  /\ ret'.result.status = "ready" =>
                    /\ MapHas(persistentTranslationMemory, key)
                    /\ ~OlderThanTtl(MapGet(persistentTranslationMemory, key))
              /\ (/\ MapHas(persistentTranslationMemory, key)
                  /\ MapGet(persistentTranslationMemory, key).normalizedSource
                         = normalizeTextForMemory(ret'.arg)
                  /\ OlderThanTtl(MapGet(persistentTranslationMemory, key)))
                 => (/\ ret'.result.status = "null"
                     /\ ~MapHas(persistentTranslationMemory', key))]_vars

\* C9's case: a lookup found an entry past its time to live and removed it.
C9_Witness ==
    /\ ret.op = "lookup"
    /\ ret.path = "expired"
    /\ ret.result.status = "null"
    /\ ~MapHas(persistentTranslationMemory,
               makePersistentMemoryKey(ret.arg, CurrentFingerprint))

\* C10: a lookup returns a translation only if the stored entry's
\* normalizedSource equals the normalised query text: what it returns is
\* the translation remembered for a text with the same normalisation,
\* never the one remembered for another text of the same durable key.
C10_CollidingTextsAreRejected ==
    (ret.op = "lookup" /\ ret.result.status = "ready") =>
        LET key   == makePersistentMemoryKey(ret.arg, CurrentFingerprint)
            lang  == normalizeTargetLanguage(settings.targetLanguage)
        IN  /\ MapHas(persistentTranslationMemory, key)
            /\ MapGet(persistentTranslationMemory, key).normalizedSource
                   = normalizeTextForMemory(ret.arg)
            /\ \E t \in StoreTexts :
                   /\ normalizeTextForMemory(t) = normalizeTextForMemory(ret.arg)
                   /\ ret.result.text = AzureTranslate(t, lang)

\* C10's case: the looked-up text and a different remembered text share
\* the durable key, and the lookup returned nothing.
C10_Witness ==
    LET key == makePersistentMemoryKey(ret.arg, CurrentFingerprint)
    IN  /\ ret.op = "lookup"
        /\ ret.path = "mismatch"
        /\ ret.result.status = "null"
        /\ MapHas(persistentTranslationMemory, key)
        /\ MapGet(persistentTranslationMemory, key).normalizedSource
               # normalizeTextForMemory(ret.arg)

(***************************************************************************)
(* Properties of pruning.                                                  *)
(***************************************************************************)
\* The Map on which rememberPersistentTranslation runs prunePersistentMemory
\* in the step being taken: the memory with the remembered entry set.
MemoryBeforePrune ==
    MapSet(persistentTranslationMemory,
           makePersistentMemoryKey(ret'.arg, CurrentFingerprint),
           [normalizedSource |-> normalizeTextForMemory(ret'.arg),
            translatedText   |-> ret'.result.text,
            sourceLanguage   |-> ret'.result.sourceLanguage,
            cachedAt         |-> now,
            lastUsedAt       |-> now])

Entries(m) == {m[i] : i \in 1..Len(m)}

\* C11 as stated: when prunePersistentMemory runs on more than
\* persistentCacheMaxEntries entries it removes exactly count - maxEntries
\* of them, and no removed entry was used later than an entry it keeps.
C11_PruneRemovesExactlyTheOverflow ==
    [][(ret'.op = "remember"
            /\ Len(MemoryBeforePrune) > settings.persistentCacheMaxEntries)
        => /\ Entries(persistentTranslationMemory') \subseteq Entries(MemoryBeforePrune)
           /\ Len(persistentTranslationMemory') = settings.persistentCacheMaxEntries
           /\ \A gone \in Entries(MemoryBeforePrune) \ Entries(persistentTranslationMemory'),
                 kept \in Entries(persistentTranslationMemory') :
                     gone.v.lastUsedAt <= kept.v.lastUsedAt]_vars

\* C11 as amended: prunePersistentMemory first removes every entry older
\* than the time to live; when the count that remains exceeds
\* persistentCacheMaxEntries it removes exactly remaining - maxEntries
\* further entries, none of them used later than an entry it keeps, and the
\* entries kept stay in the order of the Map.  Otherwise it removes nothing
\* else.
C11_PruneExpiredThenLeastRecentlyUsed ==
    [][ret'.op = "remember" =>
          \A live \in {SelectSeq(MemoryBeforePrune, LAMBDA e : ~OlderThanTtl(e.v))} :
              LET after    == persistentTranslationMemory'
                  overflow == Len(live) - settings.persistentCacheMaxEntries
              IN  /\ after = SelectSeq(live, LAMBDA e : e \in Entries(after))
                  /\ overflow <= 0 => after = live
                  /\ overflow > 0 =>
                        /\ Len(after) = settings.persistentCacheMaxEntries
                        /\ \A gone \in Entries(live) \ Entries(after),
                              kept \in Entries(after) :
                                  gone.v.lastUsedAt <= kept.v.lastUsedAt]_vars

\* C11's case: the memory overflowed with no entry expired; the entry
\* pruned was last used before the first entry of the Map, which a lookup
\* had used since it was remembered.
C11_Witness ==
    /\ ret.op = "remember"
    /\ Len(persistentTranslationMemory) = settings.persistentCacheMaxEntries
    /\ \A i \in 1..Len(persistentTranslationMemory) :
           ~OlderThanTtl(persistentTranslationMemory[i].v)
    /\ persistentTranslationMemory[1].v.cachedAt
           < persistentTranslationMemory[1].v.lastUsedAt
    /\ \E gone \in ret.dropped :
           /\ ~OlderThanTtl(gone.v)
           /\ gone.v.cachedAt >= persistentTranslationMemory[1].v.cachedAt
           /\ gone.v.lastUsedAt < persistentTranslationMemory[1].v.lastUsedAt

(***************************************************************************)
(* Properties of the memory key.                                           *)
(***************************************************************************)
\* The words of a text: its maximal runs of characters that are not white
\* space.  Two texts are whitespace variants of each other when they have
\* the same words.
RECURSIVE Words(_)
Words(text) ==
    IF Len(text) = 0 THEN <<>>
    ELSE IF IsSpace(Head(text)) THEN Words(Tail(text))
    ELSE LET stops == {i \in 1..Len(text) : IsSpace(text[i])}
             end   == IF stops = {} THEN Len(text) + 1
                      ELSE CHOOSE i \in stops : \A j \in stops : i <= j
         IN  <<SubSeq(text, 1, end - 1)>> \o Words(SubSeq(text, end, Len(text)))

\* C12: the durable key of a text is the durable key of its normalisation,
\* normalising twice is normalising once, and a lookup with a whitespace
\* variant V of a remembered text T addresses T's entry: the keys are
\* equal, the two lookups have the same outcome, and while T's entry is in
\* the memory and within its time to live the lookup with V returns T's
\* translation and marks the entry used.
C12_WhitespaceVariantsShareTheEntry ==
    [][ret'.op = "lookup" =>
          LET V  == ret'.arg
              fp == CurrentFingerprint
          IN  /\ makePersistentMemoryKey(V, fp)
                     = makePersistentMemoryKey(normalizeTextForMemory(V), fp)
              /\ normalizeTextForMemory(normalizeTextForMemory(V))
                     = normalizeTextForMemory(V)
              /\ \A T \in MemoryTexts :
                     Words(T) = Words(V) =>
                         LET key == makePersistentMemoryKey(T, fp)
                         IN  /\ key = makePersistentMemoryKey(V, fp)
                             /\ tryGetPersistentTranslation(Store(World), T, fp, settings, now)
                                    = tryGetPersistentTranslation(Store(World), V, fp, settings, now)
                             /\ (/\ MapHas(persistentTranslationMemory, key)
                                 /\ ~OlderThanTtl(MapGet(persistentTranslationMemory, key)))
                                => /\ ret'.result.status = "ready"
                                   /\ ret'.result.text
                                          = MapGet(persistentTranslationMemory, key).translatedText
                                   /\ MapGet(persistentTranslationMemory', key).lastUsedAt = now]_vars

\* C12's case: " a \t b " was looked up and the lookup returned the
\* translation remembered for "a b".
C12_Witness ==
    /\ ret.op = "lookup"
    /\ ret.arg = <<32, 97, 32, 9, 32, 98, 32>>
    /\ ret.path = "hit"
    /\ ret.result.text = BackendTranslation(<<97, 32, 98>>, settings)

(***************************************************************************)
(* Properties of the config fingerprint.                                   *)
(***************************************************************************)
\* The five inputs of the fingerprint, as the code normalises them.
FingerprintInputs(s) ==
    << normalizeTargetLanguage(s.targetLanguage),
       s.translationBackend,
       normalizeAzureEndpoint(s.azureEndpoint),
       ToLowerCase(Trim(s.azureRegion)),
       hasAzureConfig(s) >>

\* C13: a settings snapshot that differs from the current one in the
\* normalised target language, the backend, the normalised endpoint, the
\* normalised region or the presence of a key has a different fingerprint.
C13_FingerprintIsInjective ==
    \A other \in PanelSettings :
        FingerprintInputs(other) # FingerprintInputs(settings)
            => getTranslatorConfigFingerprint(other) # CurrentFingerprint

\* The persistent memory holds an entry for the text under the fingerprint.
Remembered(text, fp) ==
    /\ MapHas(persistentTranslationMemory, makePersistentMemoryKey(text, fp))
    /\ MapGet(persistentTranslationMemory, makePersistentMemoryKey(text, fp)).normalizedSource
           = normalizeTextForMemory(text)

\* C14 as stated: an edit of targetLanguage or translationBackend to a
\* different value changes the fingerprint, and the lookup that follows it
\* for a text remembered before the edit misses.
C14_EditedSettingMissesLookup ==
    [][(ret.op = "invalidate" /\ ret'.op = "lookup" /\ Remembered(ret'.arg, ret.arg))
           => /\ CurrentFingerprint # ret.arg
              /\ ret'.result.status = "null"]_vars

\* C14 as amended: an edit changes the fingerprint exactly when it changes
\* the normalised target language or the backend; after such an edit a
\* lookup for a text remembered before it misses unless the text is also
\* remembered under the new fingerprint; and a lookup only ever returns a
\* translation made for the current normalised target language by the
\* current backend.
C14_LookupServesTheCurrentConfiguration ==
    [][/\ ret'.op = "invalidate"
           => ((getTranslatorConfigFingerprint(settings') # CurrentFingerprint)
                  <=> \/ normalizeTargetLanguage(settings'.targetLanguage)
                             # normalizeTargetLanguage(settings.targetLanguage)
                      \/ settings'.translationBackend # settings.translationBackend)
       /\ (/\ ret.op = "invalidate" /\ ret'.op = "lookup"
           /\ ret.arg # CurrentFingerprint
           /\ Remembered(ret'.arg, ret.arg)
           /\ ~Remembered(ret'.arg, CurrentFingerprint))
           => ret'.result.status = "null"
       /\ (ret'.op = "lookup" /\ ret'.result.status = "ready")
           => \E T \in MemoryTexts :
                  /\ Words(T) = Words(ret'.arg)
                  /\ ret'.result.text = BackendTranslation(T, settings)]_vars

\* C14's case: the lookup that follows an edit of the target language or
\* the backend missed, while the memory holds the text under the
\* fingerprint of the settings before the edit.
C14_Witness ==
    /\ ret.op = "lookup"
    /\ ret.path = "absent"
    /\ ret.result.status = "null"
    /\ \E lang \in MemoryTargetLanguages, backend \in MemoryBackends :
           LET before == [settings EXCEPT !.targetLanguage = lang,
                                          !.translationBackend = backend]
           IN  /\ getTranslatorConfigFingerprint(before) # CurrentFingerprint
               /\ Remembered(ret.arg, getTranslatorConfigFingerprint(before))

(***************************************************************************)
(* Properties of the backend resolver.                                     *)
(***************************************************************************)
\* The settings hold an Azure key that is not blank.
KeyConfigured == Len(Trim(settings.azureApiKey)) > 0

\* The backend mode fetchTranslation read for request r: the one it read
\* when it started, or the one of the settings if it starts in this step.
ModeOf(r) ==
    IF r \in DOMAIN requests /\ requests[r].phase # "queued"
    THEN requests[r].backendMode
    ELSE settings.translationBackend

\* "Azure translation failed (401)"
MsgAzureFailed401 == MsgAzureFailedPrefix \o <<52, 48, 49, 41>>

\* C15: in mode azure-google-fallback with a key, fetchTranslation calls
\* Azure first; when the Azure call has failed and the Google call
\* succeeds, it returns the ready state of Google's result.
C15_FallbackReturnsGoogleResult ==
    [][/\ (settings.translationBackend = AzureGoogleFallback /\ KeyConfigured)
           => \A r \in ret'.started :
                  r \in DOMAIN requests' /\ requests'[r].calls = <<"azure">>
       /\ (/\ ret'.op = "complete" /\ ret'.path = "google" /\ ret'.answer.ok
           /\ ModeOf(ret'.req) = AzureGoogleFallback /\ KeyConfigured)
           => \E x \in ret'.settled :
                  /\ x.req = ret'.req
                  /\ x.calls = <<"azure", "google">>
                  /\ x.result = ReadyState(ret'.answer.sourceLanguage, ret'.answer.text)]_vars

\* C15's case: Azure had failed, Google answered, and fetchTranslation
\* returned Google's translation.
C15_Witness ==
    /\ ret.op = "complete" /\ ret.path = "google" /\ ret.answer.ok
    /\ settings.translationBackend = AzureGoogleFallback /\ KeyConfigured
    /\ \E x \in ret.settled :
           /\ x.req = ret.req
           /\ x.calls = <<"azure", "google">>
           /\ x.result.status = "ready"
           /\ x.result.text = GoogleTranslate(<<104, 105>>,
                                  normalizeTargetLanguage(settings.targetLanguage))

\* C16: in mode azure-only without a key, a fetchTranslation that starts
\* returns the error state in the same step, having called no backend, and
\* no backend call is ever outstanding.
C16_AzureOnlyWithoutKeyFailsAtOnce ==
    [][(settings.translationBackend = AzureOnly /\ ~KeyConfigured)
        => /\ \A r \in ret'.started :
                  \E x \in ret'.settled :
                      /\ x.req = r
                      /\ x.calls = <<>>
                      /\ x.result = ErrorState(MsgSetAzureKey)
           /\ \A r \in DOMAIN requests' : requests'[r].phase = "queued"]_vars

\* C16's case: a request was made in mode azure-only without a key and its
\* fetchTranslation returned the error without a backend call.
C16_Witness ==
    /\ ret.op = "requestTranslation"
    /\ settings.translationBackend = AzureOnly /\ ~KeyConfigured
    /\ ret.req \in ret.started
    /\ \E x \in ret.settled :
           /\ x.req = ret.req
           /\ x.calls = <<>>
           /\ x.result.status = "error"

\* C17: in mode azure-only with a key, a failing Azure call makes
\* fetchTranslation return the error state with the message of the Azure
\* failure, and a request in this mode never calls Google.
C17_AzureOnlySurfacesAzureFailure ==
    [][/\ (/\ ret'.op = "complete" /\ ret'.path = "azure" /\ ~ret'.answer.ok
           /\ ModeOf(ret'.req) = AzureOnly)
           => \E x \in ret'.settled :
                  /\ x.req = ret'.req
                  /\ x.calls = <<"azure">>
                  /\ x.result = ErrorState(ret'.answer.message)
       /\ \A r \in DOMAIN requests' :
              requests'[r].backendMode = AzureOnly
                  => requests'[r].calls = <<"azure">>
       /\ \A x \in ret'.settled :
              ModeOf(x.req) = AzureOnly => x.calls \in {<<>>, <<"azure">>}]_vars

\* C17's case: the Azure call failed with status 401 in mode azure-only and
\* fetchTranslation returned "Azure translation failed (401)".
C17_Witness ==
    /\ ret.op = "complete" /\ ret.path = "azure" /\ ~ret.answer.ok
    /\ settings.translationBackend = AzureOnly /\ KeyConfigured
    /\ \E x \in ret.settled :
           /\ x.req = ret.req
           /\ x.calls = <<"azure">>
           /\ x.result = ErrorState(MsgAzureFailed401)

\* C18: in mode google-only, with or without an Azure key, fetchTranslation
\* calls Google and never Azure, and when the Google call fails it returns
\* the error "translation unavailable".
C18_GoogleOnlyNeverCallsAzure ==
    [][/\ settings.translationBackend = GoogleOnly
           => \A r \in ret'.started :
                  r \in DOMAIN requests' /\ requests'[r].calls = <<"google">>
       /\ \A x \in ret'.settled :
              ModeOf(x.req) = GoogleOnly =>
                  /\ x.calls = <<"google">>
                  /\ ret'.path = "google"
                  /\ ~ret'.answer.ok => x.result = ErrorState(MsgTranslationUnavailable)
                  /\ ret'.answer.ok => x.result.status = "ready"]_vars

\* C18's case: a key is configured, the mode is google-only, the Google
\* call failed and fetchTranslation returned "translation unavailable".
C18_Witness ==
    /\ ret.op = "complete" /\ ret.path = "google" /\ ~ret.answer.ok
    /\ settings.translationBackend = GoogleOnly /\ KeyConfigured
    /\ \E x \in ret.settled :
           /\ x.req = ret.req
           /\ x.calls = <<"google">>
           /\ x.result = ErrorState(MsgTranslationUnavailable)

\* C19: in mode azure-google-fallback, without a key fetchTranslation calls
\* Google at once and never Azure; and every error it returns comes after a
\* failed Google call and is "translation unavailable", whatever Azure had
\* answered.
C19_FallbackErrorIsGeneric ==
    [][/\ (settings.translationBackend = AzureGoogleFallback /\ ~KeyConfigured)
           => /\ \A r \in ret'.started :
                     r \in DOMAIN requests' /\ requests'[r].calls = <<"google">>
              /\ \A x \in ret'.settled : x.calls = <<"google">>
       /\ \A x \in ret'.settled :
              (ModeOf(x.req) = AzureGoogleFallback /\ x.result.status = "error")
                  => /\ ret'.path = "google" /\ ~ret'.answer.ok
                     /\ x.calls[Len(x.calls)] = "google"
                     /\ x.result = ErrorState(MsgTranslationUnavailable)]_vars

\* C19's case: with a key, Azure had failed, then Google failed, and
\* fetchTranslation returned "translation unavailable".
C19_Witness ==
    /\ ret.op = "complete" /\ ret.path = "google" /\ ~ret.answer.ok
    /\ settings.translationBackend = AzureGoogleFallback /\ KeyConfigured
    /\ \E x \in ret.settled :
           /\ x.req = ret.req
           /\ x.calls = <<"azure", "google">>
           /\ x.result = ErrorState(MsgTranslationUnavailable)

(***************************************************************************)
(* Properties of the request promise.                                      *)
(***************************************************************************)
\* C20: a pending requestTranslation promise ends only by resolving: no
\* step removes a pending request without its producer having returned;
\* and when the producer returns, its state is ready or error, that state
\* is in the volatile cache under the request's key, and the key is no
\* longer registered in flight.
C20_RequestsResolveToTerminalState ==
    [][/\ \A r \in DOMAIN requests :
              r \in DOMAIN requests' \/ (\E x \in ret'.settled : x.req = r)
       /\ \A x \in ret'.settled :
              LET key == IF x.req \in DOMAIN requests
                         THEN RequestKey(requests[x.req])
                         ELSE ret'.arg
              IN  /\ x.result.status \in {"ready", "error"}
                  /\ MapHas(translationCache', key)
                  /\ MapGet(translationCache', key) = x.result
                  /\ ~MapHas(inFlightRequests', key)]_vars


(***************************************************************************)
(* The plugin is stopped while it starts: start() has called the load, the *)
(* reads answer or fail, and stop() is called at any time after start().   *)
(***************************************************************************)
\* stop(), the load that start() called being over or not.
StopAfterStart ==
    /\ dataStoreReads # <<>>
    /\ Becomes(stop(Begin("stop")))

NextStartStop ==
    \/ LoadCall
    \/ DataStoreGetSettles
    \/ LoadLookup
    \/ StopAfterStart

SpecStartStop == InitLoad /\ [][NextStartStop]_vars

(***************************************************************************)
(* The scroll tracker under the events of the window: wheel, touch-move    *)
(* and keydown events arrive while translations are written back and the   *)
(* timers fire.                                                            *)
(***************************************************************************)
\* The handlers start() registers on the window.
windowScrollHandler(w, event) == markScrollActivity(w)

windowKeydownHandler(w, event) ==
    IF event.key \in SCROLLING_KEYS THEN markScrollActivity(w) ELSE w

windowTouchMoveHandler(w, event) == markScrollActivity(w)

\* KeyboardEvent.key of the keys that scroll a page (the two arrows, page
\* up and down, home, end and the space bar, whose key value is " ") and
\* of the enter key.
PageNavigationKeys ==
    {"ArrowUp", "ArrowDown", "PageUp", "PageDown", "Home", "End", " "}

KeyValues == PageNavigationKeys \cup {"Enter"}

\* The events the window dispatches to the three listeners.
ScrollEvents ==
    {[type |-> "wheel", key |-> ""], [type |-> "touchmove", key |-> ""]}
        \cup {[type |-> "keydown", key |-> k] : k \in KeyValues}

\* The window dispatches an event to its listener.
WindowEventArrives ==
    \E event \in ScrollEvents :
        /\ event.type \in {"wheel", "keydown", "touchmove"}
        /\ LET w == [Begin("event") EXCEPT !.ret.arg = event]
           IN  Becomes(
                   IF event.type = "wheel" THEN windowScrollHandler(w, event)
                   ELSE IF event.type = "keydown" THEN windowKeydownHandler(w, event)
                   ELSE windowTouchMoveHandler(w, event))

NextScroll ==
    \/ TranslationArrives
    \/ Render
    \/ WindowEventArrives
    \/ ScrollIdleTimerFires
    \/ FlushTimerFires

SpecScroll == InitMut /\ [][NextScroll]_vars

(***************************************************************************)
(* The save timer under a steady stream of mutations: texts are remembered *)
(* and looked up second by second, and the timer fires when it is due.     *)
(***************************************************************************)
\* The clock of this specification runs to MaxClockSeconds seconds.
MaxClockSeconds == 5

\* A second passes.  A timer fires when it is due: the clock does not pass
\* the time the save timer is set for.
SecondPasses ==
    /\ now + 1000 <= MaxClockSeconds * 1000
    /\ persistMemoryTimer => now + 1000 <= persistMemoryTimerDue
    /\ Becomes([Begin("tick") EXCEPT !.now = now + 1000])

\* A lookup or a remember at a time at which no save is due: the callback
\* of a timer that is due runs first.
MutationArrives ==
    /\ ~(persistMemoryTimer /\ now >= persistMemoryTimerDue)
    /\ (DurableLookup \/ DurableRemember)

NextSave ==
    \/ MutationArrives
    \/ SecondPasses
    \/ SaveTimerFires

SpecSave == Started(BaseSettings) /\ [][NextSave]_vars

(***************************************************************************)
(* Write-back to messages the host has dropped: translations arrive,       *)
(* accessories render, the flush timer fires, the Azure key is edited, and *)
(* the host deletes messages from its store.                               *)
(***************************************************************************)
\* The host removes a message from its store; the mutations and the
\* tracking entry the plugin keeps for it stay.
MessageDeleted ==
    \E messageId \in MessageIds :
        /\ messages[messageId].exists
        /\ Becomes([Begin("deleted") EXCEPT
                       !.ret.arg = messageId,
                       !.messages[messageId].exists = FALSE])

NextGone ==
    \/ TranslationArrives
    \/ Render
    \/ FlushTimerFires
    \/ ChangeAzureApiKey
    \/ MessageDeleted

SpecGone == InitMut /\ [][NextGone]_vars

(***************************************************************************)
(* Properties of the volatile cache.                                       *)
(***************************************************************************)
\* C21: a requestTranslation call for a key whose terminal state (ready or
\* error) is in translationCache returns that state and changes nothing:
\* no in-flight entry, no request, no read or change of the persistent
\* memory or its save timer, no scheduler admission and no backend call.
\* A cached error is thereby returned on every request while it is cached.
C21_CachedStateIsReturnedAsIs ==
    [][(ret'.op = "requestTranslation" /\ MapHas(translationCache, ret'.arg))
        => /\ ret'.result = MapGet(translationCache, ret'.arg)
           /\ ret'.result.status \in {"ready", "error"}
           /\ ret'.started = {}
           /\ ret'.settled = {}
           /\ UNCHANGED << translationCache, inFlightRequests, requests,
                           requestQueue, activeRequests,
                           persistentTranslationMemory, persistMemoryTimer,
                           persistMemoryTimerDue, dataStore, dataStoreReads >>]_vars

\* C21's case: a request for a key whose cached state is an error has just
\* been answered with that error, and nothing is in flight for the key.
C21_Witness ==
    /\ ret.op = "requestTranslation"
    /\ MapHas(translationCache, ret.arg)
    /\ ret.result = MapGet(translationCache, ret.arg)
    /\ ret.result.status = "error"
    /\ ~MapHas(inFlightRequests, ret.arg)

\* The position of a key in a Map's insertion order.
Position(m, key) == CHOOSE i \in 1..Len(m) : m[i].k = key

\* C22: translationCache never holds more than MAX_IN_MEMORY_TRANSLATIONS
\* entries.  A step that stores a result keeps it in the cache; the keys
\* it deletes are the earliest-inserted ones (every deleted key precedes
\* every surviving key in the Map's order), it deletes only down to the
\* bound, a key that is stored again keeps its place in the order, and a
\* key that is new goes to the end: reads and overwrites do not reorder.
C22_CacheIsBoundedWithInsertionOrderEviction ==
    [][/\ Len(translationCache') <= MAX_IN_MEMORY_TRANSLATIONS
       /\ ret'.op # "invalidate" =>
            LET old     == MapKeys(translationCache)
                new     == MapKeys(translationCache')
                evicted == old \ new
                kept    == old \cap new
            IN  /\ \A x \in ret'.settled :
                       /\ MapHas(translationCache', RequestKey(requests[x.req]))
                       /\ MapGet(translationCache', RequestKey(requests[x.req])) = x.result
                /\ \A e \in evicted, k \in kept :
                       Position(translationCache, e) < Position(translationCache, k)
                /\ \A k1, k2 \in kept :
                       Position(translationCache, k1) < Position(translationCache, k2)
                           => Position(translationCache', k1) < Position(translationCache', k2)
                /\ \A k \in kept, n \in new \ old :
                       Position(translationCache', k) < Position(translationCache', n)
                /\ evicted # {} =>
                       Len(translationCache') = MAX_IN_MEMORY_TRANSLATIONS
                /\ ret'.evicted = evicted]_vars

\* C22's case: a completed request has just pushed the cache over its bound
\* and the earliest-inserted key was deleted, the cache staying full.
C22_Witness ==
    /\ ret.op = "complete"
    /\ ret.evicted # {}
    /\ ret.settled # {}
    /\ Len(translationCache) = MAX_IN_MEMORY_TRANSLATIONS
    /\ ret.evicted \cap MapKeys(translationCache) = {}

(***************************************************************************)
(* Properties of the load of the persistent memory.                        *)
(***************************************************************************)
IsPrefix(p, q) == Len(p) <= Len(q) /\ \A i \in 1..Len(p) : p[i] = q[i]

\* The stored value has an item that cannot be destructured.
HasNullItem(stored) ==
    stored.kind = "array" /\ \E i \in 1..Len(stored.items) : ~stored.items[i].iterable

\* The items of a stored value that are entries with all three strings.
WellFormedItems(stored) ==
    IF stored.kind # "array" THEN {}
    ELSE {i \in 1..Len(stored.items) :
             /\ stored.items[i].iterable
             /\ stored.items[i].v.normalizedSource # <<>>
             /\ stored.items[i].v.translatedText # <<>>
             /\ stored.items[i].v.sourceLanguage # <<>>}

\* C23: DataStore.get is called at most once per key, the current key
\* first and the legacy keys after it in list order (the reads are a
\* prefix of the key list).  A call of ensurePersistentMemoryLoaded reads
\* only when the memory is neither loaded nor being loaded, so concurrent
\* and later callers share the one load.  After a read, the next key is
\* read only if the read succeeded and yielded no entry and a key is left;
\* otherwise the load ends, and nothing is read after it.
C23_LoadReadsEachKeyAtMostOnceInOrder ==
    [][/\ IsPrefix(dataStoreReads', LoadKeys)
       /\ persistentCacheLoaded => dataStoreReads' = dataStoreReads
       /\ ret'.op = "ensureLoaded" =>
            /\ (dataStoreReads' # dataStoreReads)
                   <=> (~persistentCacheLoaded /\ ~persistentCacheLoadPromise)
            /\ persistentCacheLoadPromise' = ~persistentCacheLoaded
            /\ persistentCacheLoaded' = persistentCacheLoaded
       /\ ret'.op = "loadRead" =>
            LET n      == Len(dataStoreReads)
                stored == dataStore[dataStoreReads[n]]
                failed == ret'.path = "rejected" \/ HasNullItem(stored)
            IN  IF failed \/ WellFormedItems(stored) # {} \/ n = Len(LoadKeys)
                THEN /\ dataStoreReads' = dataStoreReads
                     /\ persistentCacheLoaded'
                     /\ ~persistentCacheLoadPromise'
                ELSE /\ dataStoreReads' = Append(dataStoreReads, LoadKeys[n + 1])
                     /\ ~persistentCacheLoaded'
                     /\ persistentCacheLoadPromise']_vars

\* C23's case: the current key yielded nothing, the first legacy key
\* yielded its entry and ended the load, and a later caller of
\* ensurePersistentMemoryLoaded has returned without a read.
C23_Witness ==
    /\ ret.op = "ensureLoaded"
    /\ ret.path = "loaded"
    /\ persistentCacheLoaded
    /\ dataStoreReads = SubSeq(LoadKeys, 1, 2)
    /\ WellFormedItems(dataStore[LoadKeys[1]]) = {}
    /\ WellFormedItems(dataStore[LoadKeys[3]]) # {}
    /\ Len(persistentTranslationMemory) = 1

\* The stored value is absent, no array, or an array with an item that is
\* null or an entry without one of its strings.
IsMalformed(stored) ==
    \/ stored.kind # "array"
    \/ WellFormedItems(stored) # 1..Len(stored.items)

\* C26: when the read of the current key fails, or the key holds absent,
\* non-list or malformed data, the load ends with the store marked loaded
\* and the persistent map empty.
C26_UnreadableDataLeavesTheMemoryEmpty ==
    (/\ ret.op = "loadRead"
     /\ persistentCacheLoaded
     /\ \/ ret.path = "rejected"
        \/ IsMalformed(dataStore[PERSISTENT_CACHE_DATASTORE_KEY]))
        => persistentTranslationMemory = <<>>

(***************************************************************************)
(* Properties of invalidation.                                             *)
(***************************************************************************)
\* The five settings that enter the fingerprint.
FingerprintSettings(s) ==
    << s.targetLanguage, s.translationBackend, s.azureApiKey, s.azureRegion,
       s.azureEndpoint >>

\* C24: a step that changes targetLanguage, translationBackend,
\* azureApiKey, azureRegion or azureEndpoint is a run of
\* invalidateAllTranslations.  After it the volatile cache, the in-flight
\* registry, the request queue and the pending-mutation map are empty and
\* no flush timer is set; for every message that was tracked, updateMessage
\* was called with its originalContent and the message in the host's store
\* has that content; the tracked-message table is empty; and the persistent
\* memory is as it was.
C24_SettingsEditInvalidatesEverything ==
    [][/\ FingerprintSettings(settings') # FingerprintSettings(settings)
            => ret'.op = "invalidate"
       /\ ret'.op = "invalidate" =>
            /\ translationCache' = <<>>
            /\ inFlightRequests' = <<>>
            /\ requestQueue' = <<>>
            /\ pendingMessageMutations' = <<>>
            /\ mutationFlushTimer' = 0
            /\ translatedMessageState' = <<>>
            /\ \A i \in 1..Len(translatedMessageState) :
                   LET tracked == translatedMessageState[i]
                   IN  /\ \E u \in 1..Len(ret'.updates) :
                              /\ ret'.updates[u].messageId = tracked.k
                              /\ ret'.updates[u].content = tracked.v.originalContent
                       /\ messages[tracked.k].exists =>
                              messages'[tracked.k].content = tracked.v.originalContent
            /\ Len(ret'.updates) = Len(translatedMessageState)
            /\ UNCHANGED << persistentTranslationMemory, dataStore >>]_vars

\* C24's case: an edit has just invalidated a session in which a backend
\* call was running, both messages were shown translated and the
\* persistent memory held an entry: the registry is empty while the call
\* is still out, both messages were written back and the memory still
\* holds its entry.
C24_Witness ==
    /\ ret.op = "invalidate"
    /\ settings # SessionSettings
    /\ Outstanding # {}
    /\ inFlightRequests = <<>>
    /\ Len(ret.updates) = 2
    /\ \A m \in MessageIds : messages[m].content = <<104, 105>>
    /\ persistentTranslationMemory # <<>>
    /\ translatedMessageState = <<>>

(***************************************************************************)
(* Properties of stop().                                                   *)
(***************************************************************************)
\* The items of the array stored under the current key.
Written(store) == store[PERSISTENT_CACHE_DATASTORE_KEY].items

\* The entries of the memory whose age is within the configured days.
Unexpired(mem) ==
    SelectSeq(mem, LAMBDA e :
        now - e.v.cachedAt <= settings.persistentCacheTtlDays * DAY_MS)

\* C25 as stated: stop() with persistence enabled cancels the pending
\* save and writes the persistent map to the current key, so that every
\* entry the map held before stop() is among what is written.
C25_StopWritesEveryEntry ==
    [][(ret'.op = "stop" /\ settings.persistentCacheEnabled) =>
            /\ ~persistMemoryTimer'
            /\ \A i \in 1..Len(persistentTranslationMemory) :
                   \E j \in 1..Len(Written(dataStore')) :
                       /\ Written(dataStore')[j].k = persistentTranslationMemory[i].k
                       /\ Written(dataStore')[j].v = persistentTranslationMemory[i].v]_vars

\* C25: stop() with persistence enabled cancels the pending save, drops
\* the expired entries from the persistent map and writes the map that
\* remains, whole and in its order, to the current key; the other keys of
\* the storage are left alone.
C25_StopWritesTheUnexpiredEntries ==
    [][(ret'.op = "stop" /\ settings.persistentCacheEnabled) =>
            /\ ~persistMemoryTimer'
            /\ persistentTranslationMemory' = Unexpired(persistentTranslationMemory)
            /\ Len(Written(dataStore')) = Len(persistentTranslationMemory')
            /\ \A i \in 1..Len(persistentTranslationMemory') :
                   /\ Written(dataStore')[i].k = persistentTranslationMemory'[i].k
                   /\ Written(dataStore')[i].v = persistentTranslationMemory'[i].v
            /\ dataStore'[PERSISTENT_CACHE_DATASTORE_KEY].kind = "array"
            /\ \A key \in DataStoreKeys \ {PERSISTENT_CACHE_DATASTORE_KEY} :
                   dataStore'[key] = dataStore[key]]_vars

\* C25's case: stop() has cancelled a save that was still a while off and
\* has written a memory of two entries.
C25_Witness ==
    /\ ret.op = "stop"
    /\ ~persistMemoryTimer
    /\ persistMemoryTimerDue > now
    /\ Len(persistentTranslationMemory) = 2
    /\ Len(Written(dataStore)) = 2

(***************************************************************************)
(* Properties of the order of the stores within a request.                 *)
(***************************************************************************)
\* The persistent memory holds a live entry for the text under the
\* fingerprint.
HoldsLiveEntry(text, fp) ==
    \E i \in 1..Len(persistentTranslationMemory) :
        /\ persistentTranslationMemory[i].k = makePersistentMemoryKey(text, fp)
        /\ persistentTranslationMemory[i].v.normalizedSource = normalizeTextForMemory(text)
        /\ now - persistentTranslationMemory[i].v.cachedAt
               <= settings.persistentCacheTtlDays * DAY_MS

\* The volatile key of a request that settles in this step: a request that
\* was admitted earlier carries it, a request made and settled in the same
\* step is the one the step was called with.
SettledKey(x) ==
    IF x.req \in DOMAIN requests THEN RequestKey(requests[x.req]) ELSE ret'.arg

\* C27: a request whose key is neither cached nor in flight and whose text
\* has a live entry in the persistent memory is answered with that entry,
\* ready, and cached, without a task being admitted, queued or started; a
\* backend result that is ready is written to the volatile cache and to
\* the persistent memory, one that is an error is written to the volatile
\* cache only.
C27_PersistentStoreBeforeScheduler ==
    [][/\ \A m \in MessageIds, text \in PipeTexts :
            LET fp  == getTranslatorConfigFingerprint(settings)
                key == getMessageCacheKey(m, text, fp)
            IN  (/\ ret'.op = "requestTranslation"
                 /\ ret'.arg = key
                 /\ settings.persistentCacheEnabled
                 /\ ~MapHas(translationCache, key)
                 /\ ~MapHas(inFlightRequests, key)
                 /\ HoldsLiveEntry(text, fp))
                => /\ ret'.result.status = "ready"
                   /\ ret'.result.text =
                          MapGet(persistentTranslationMemory,
                                 makePersistentMemoryKey(text, fp)).translatedText
                   /\ MapHas(translationCache', key)
                   /\ MapGet(translationCache', key) = ret'.result
                   /\ ret'.started = {}
                   /\ ret'.settled = {}
                   /\ UNCHANGED << requests, requestQueue, activeRequests,
                                   inFlightRequests >>
       /\ \A x \in ret'.settled :
            /\ MapHas(translationCache', SettledKey(x))
            /\ MapGet(translationCache', SettledKey(x)) = x.result
            /\ x.result.status = "ready" =>
                   /\ x.req \in DOMAIN requests
                   /\ LET req  == requests[x.req]
                          pkey == makePersistentMemoryKey(req.sourceContent, req.fp)
                      IN  /\ MapHas(persistentTranslationMemory', pkey)
                          /\ MapGet(persistentTranslationMemory', pkey).translatedText
                                 = x.result.text
                          /\ MapGet(persistentTranslationMemory', pkey).sourceLanguage
                                 = x.result.sourceLanguage
                          /\ MapGet(persistentTranslationMemory', pkey).normalizedSource
                                 = normalizeTextForMemory(req.sourceContent)
                          /\ persistMemoryTimer'
       /\ (/\ ret'.settled # {}
           /\ \A x \in ret'.settled : x.result.status = "error")
            => UNCHANGED << persistentTranslationMemory, persistMemoryTimer,
                            persistMemoryTimerDue, dataStore >>]_vars

\* C27's case: the second message's request for a text has just been
\* answered from the persistent memory, which holds what the backend
\* answered for the first message, while nothing runs.
C27_Witness ==
    /\ ret.op = "requestTranslation"
    /\ ret.result.status = "ready"
    /\ ret.started = {}
    /\ Len(translationCache) = 2
    /\ \A i \in 1..Len(translationCache) : translationCache[i].v = ret.result
    /\ Len(persistentTranslationMemory) = 1
    /\ persistentTranslationMemory[1].v.translatedText = ret.result.text
    /\ requests = <<>>
    /\ activeRequests = 0

\* The error side of C27's case: Azure has just failed a request under the
\* azure-only backend; the error is cached and the persistent memory is
\* empty.
C27_ErrorWitness ==
    /\ ret.op = "complete"
    /\ \E x \in ret.settled : x.result.status = "error"
    /\ \E i \in 1..Len(translationCache) : translationCache[i].v.status = "error"
    /\ persistentTranslationMemory = <<>>
    /\ ~persistMemoryTimer

(***************************************************************************)
(* Properties of the write-back to messages that are gone.                 *)
(***************************************************************************)
\* The number of mutations one flush takes from the pending map.
BatchLen == 
    IF Len(pendingMessageMutations) < MESSAGE_MUTATION_FLUSH_BATCH_SIZE
    THEN Len(pendingMessageMutations)
    ELSE MESSAGE_MUTATION_FLUSH_BATCH_SIZE

\* C28: a flush outside scrolling and an invalidation return normally
\* whether or not the messages they update still exist: the flush removes
\* its batch from the pending map, attempts one update per mutation of the
\* batch, writes the content of every message of the batch that exists and
\* keeps the timer running for what is left; the invalidation empties the
\* pending map and the tracking table, attempts one update per tracked
\* message and restores every tracked message that exists.
C28_UpdateFailuresAreSwallowed ==
    [][/\ ret'.op \in {"flush", "invalidate"} => ~ret'.raised
       /\ (ret'.op = "flush" /\ ~isScrollActive) =>
            /\ pendingMessageMutations' =
                   SubSeq(pendingMessageMutations, BatchLen + 1,
                          Len(pendingMessageMutations))
            /\ Len(ret'.updates) = BatchLen
            /\ \A i \in 1..BatchLen :
                   LET entry == pendingMessageMutations[i]
                   IN  /\ ret'.updates[i] =
                              [messageId |-> entry.k, content |-> entry.v.content]
                       /\ messages[entry.k].exists =>
                              messages'[entry.k].content = entry.v.content
                       /\ ~messages[entry.k].exists =>
                              messages'[entry.k] = messages[entry.k]
            /\ pendingMessageMutations' # <<>> => mutationFlushTimer' # 0
       /\ ret'.op = "invalidate" =>
            /\ pendingMessageMutations' = <<>>
            /\ translatedMessageState' = <<>>
            /\ Len(ret'.updates) = Len(translatedMessageState)
            /\ \A i \in 1..Len(translatedMessageState) :
                   LET tracked == translatedMessageState[i]
                   IN  /\ ret'.updates[i] =
                              [messageId |-> tracked.k,
                               content   |-> tracked.v.originalContent]
                       /\ messages[tracked.k].exists =>
                              messages'[tracked.k].content = tracked.v.originalContent
                       /\ ~messages[tracked.k].exists =>
                              messages'[tracked.k] = messages[tracked.k]]_vars

\* C28's case for the flush: the flush has just taken the mutation of a
\* message that is gone from the pending map; the other message's mutation
\* is left with the timer running.
C28_Witness ==
    /\ ret.op = "flush"
    /\ Len(ret.updates) = 1
    /\ ~messages[ret.updates[1].messageId].exists
    /\ ~MapHas(pendingMessageMutations, ret.updates[1].messageId)
    /\ Len(pendingMessageMutations) = 1
    /\ mutationFlushTimer # 0

\* C28's case for the invalidation: two messages were tracked, the first
\* is gone, and the second has been given its original content back.
C28_InvalidateWitness ==
    /\ ret.op = "invalidate"
    /\ Len(ret.updates) = 2
    /\ ~messages[ret.updates[1].messageId].exists
    /\ messages[ret.updates[2].messageId].exists
    /\ messages[ret.updates[2].messageId].content = ret.updates[2].content
    /\ messages[ret.updates[1].messageId].content # ret.updates[1].content
    /\ translatedMessageState = <<>>

(***************************************************************************)
(* Properties of the save timer.                                           *)
(***************************************************************************)
\* The entry is in the array stored under the current key as it is in the
\* memory.
IsWritten(e) ==
    \E j \in 1..Len(Written(dataStore)) :
        /\ Written(dataStore)[j].k = e.k
        /\ Written(dataStore)[j].v = e.v

\* C29 as stated, on finite runs: while mutations keep arriving a write
\* occurs about every SAVE_DELAY_MS, so that no mutation of the memory
\* (an entry's lastUsedAt is the time of its last one) stays unwritten for
\* longer than twice that delay.
C29_MutationsAreWrittenWithinTheDelay ==
    \A i \in 1..Len(persistentTranslationMemory) :
        \/ IsWritten(persistentTranslationMemory[i])
        \/ now - persistentTranslationMemory[i].v.lastUsedAt <= 2 * SAVE_DELAY_MS

(***************************************************************************)
(* Properties of the pending map of mutations.                             *)
(***************************************************************************)
\* The calls of enqueueMessageMutation of the step that are the last for
\* their message.
LastEnqueued(calls) ==
    {i \in 1..Len(calls) :
        \A j \in (i + 1)..Len(calls) : calls[j].messageId # calls[i].messageId}

\* C30: the pending map never holds two mutations for one message; after
\* a step that enqueued for a message the map holds the mutation enqueued
\* last for it, whatever it held before; and a flush outside scrolling
\* calls updateMessage once for each message of its batch, with the
\* content of the mutation the map held for it.
C30_OnePendingMutationPerMessage ==
    [][/\ \A i, j \in 1..Len(pendingMessageMutations') :
            pendingMessageMutations'[i].k = pendingMessageMutations'[j].k => i = j
       /\ \A i \in LastEnqueued(ret'.enqueued) :
            /\ MapHas(pendingMessageMutations', ret'.enqueued[i].messageId)
            /\ MapGet(pendingMessageMutations', ret'.enqueued[i].messageId)
                   = ret'.enqueued[i].mutation
       /\ (ret'.op = "flush" /\ ~isScrollActive) =>
            /\ Len(ret'.updates) = BatchLen
            /\ \A i \in 1..BatchLen :
                   /\ ret'.updates[i].messageId = pendingMessageMutations[i].k
                   /\ ret'.updates[i].content = pendingMessageMutations[i].v.content
                   /\ messages'[pendingMessageMutations[i].k].content
                          = pendingMessageMutations[i].v.content
                   /\ ~MapHas(pendingMessageMutations', pendingMessageMutations[i].k)
            /\ \A i, j \in 1..Len(ret'.updates) :
                   ret'.updates[i].messageId = ret'.updates[j].messageId => i = j]_vars

\* C30's case, the enqueue: a message that had a mutation pending has just
\* been enqueued again with another one, and the map holds the later one
\* alone for it.
C30_Witness ==
    /\ \E i \in 1..Len(ret.enqueued) :
           /\ ret.enqueued[i].replaced
           /\ MapGet(pendingMessageMutations, ret.enqueued[i].messageId)
                  = ret.enqueued[i].mutation
           /\ Cardinality({j \in 1..Len(pendingMessageMutations) :
                  pendingMessageMutations[j].k = ret.enqueued[i].messageId}) = 1
    /\ mutationFlushTimer # 0

(***************************************************************************)
(* Properties of the scroll tracker.                                       *)
(***************************************************************************)
\* The event is a wheel event, a touch-move event or the keydown of a key
\* that scrolls the page.
IsScrollSignal(event) ==
    \/ event.type \in {"wheel", "touchmove"}
    \/ event.type = "keydown" /\ event.key \in PageNavigationKeys

\* C31 as stated, its first part: every wheel, scrolling-key or touch-move
\* signal leaves isScrollActive true, with the idle timer running.
C31_EveryScrollSignalMarksActivity ==
    [][(ret'.op = "event" /\ IsScrollSignal(ret'.arg)) =>
            /\ isScrollActive'
            /\ scrollIdleTimer']_vars

\* The rest of C31, which the program keeps: the keys of SCROLLING_KEYS,
\* wheel and touch-move set isScrollActive and the idle timer; while
\* isScrollActive is true the idle timer is running, and only its callback
\* sets isScrollActive to false, scheduling a flush if a mutation is
\* pending.
ScrollTrackerKeepsItsTimer ==
    [][/\ (/\ ret'.op = "event"
           /\ \/ ret'.arg.type \in {"wheel", "touchmove"}
              \/ ret'.arg.key \in SCROLLING_KEYS)
            => (isScrollActive' /\ scrollIdleTimer')
       /\ isScrollActive' => scrollIdleTimer'
       /\ (isScrollActive /\ ~isScrollActive') =>
            /\ ret'.op = "scrollIdle"
            /\ scrollIdleTimer
            /\ pendingMessageMutations' # <<>> => mutationFlushTimer' # 0]_vars

(***************************************************************************)
(* Properties of the scheduler's counter.                                  *)
(***************************************************************************)
\* C32: activeRequests is the number of tasks that scheduleTranslation has
\* started and that have not completed, and so is never negative.
C32_ActiveRequestsCountsRunningTasks ==
    /\ activeRequests = Cardinality(Outstanding)
    /\ activeRequests >= 0

(***************************************************************************)
(* Properties of the writes during the load.                               *)
(***************************************************************************)
\* C33: the array under the current key is replaced only once the load
\* has completed, and so no write drops a well-formed entry that the key
\* held and that was never loaded into the map.
C33_NoWriteBeforeTheLoadCompleted ==
    [][dataStore'[PERSISTENT_CACHE_DATASTORE_KEY] # dataStore[PERSISTENT_CACHE_DATASTORE_KEY]
           => /\ persistentCacheLoaded
              /\ \A i \in 1..Len(Written(dataStore)) :
                     (/\ Written(dataStore)[i].iterable
                      /\ isWellFormedEntry(Written(dataStore)[i].v)
                      /\ ~MapHas(persistentTranslationMemory, Written(dataStore)[i].k))
                     => \E j \in 1..Len(Written(dataStore')) :
                            Written(dataStore')[j] = Written(dataStore)[i]]_vars

(***************************************************************************)
(* Properties of the flush timer.                                          *)
(***************************************************************************)
\* C34: whenever a mutation is pending, the flush timer is set.
C34_PendingMutationsHaveAFlushScheduled ==
    pendingMessageMutations # <<>> => mutationFlushTimer # 0

\* C34's case: the flush timer has fired while the user scrolls; the
\* mutation is still pending and the timer is set again, with the delay of
\* 150 ms.
C34_Witness ==
    /\ ret.op = "flush"
    /\ isScrollActive
    /\ pendingMessageMutations # <<>>
    /\ mutationFlushTimer = 150

\* C34's case after a batch: a flush has applied its batch, another
\* message's mutation is left, and the timer is set again.
C34_BatchWitness ==
    /\ ret.op = "flush"
    /\ Len(ret.updates) > 0
    /\ pendingMessageMutations # <<>>
    /\ mutationFlushTimer = MESSAGE_MUTATION_FLUSH_DELAY_MS

(***************************************************************************)
(* Properties of the write-back under scrolling.                           *)
(***************************************************************************)
\* C35: no step taken while isScrollActive is true calls updateMessage or
\* changes the content of a message.
C35_NoWriteBackWhileScrolling ==
    [][isScrollActive =>
            /\ ret'.updates = <<>>
            /\ \A m \in MessageIds : messages'[m].content = messages[m].content]_vars

=============================================================================
